---- MODULE Spec2Model ----
(***************************************************************************)
(* Taxonomy scorers of the business-adaptability package:                  *)
(*   IndustryClassifier   (industry_classifier.py)                         *)
(*   BusinessSizeAnalyzer (business_size_analyzer.py)                      *)
(*   RoleRecognizer       (role_recognizer.py)                             *)
(*                                                                         *)
(* Representation.                                                         *)
(*  - A Python str that is scanned or case-folded is a sequence of         *)
(*    one-character strings; ids and display names are plain strings.      *)
(*  - A Python dict is a sequence of records carrying their key in the     *)
(*    field "id": dicts iterate in insertion order and the code depends on *)
(*    that order (max() returns the first maximal key).                    *)
(*  - Optional values: None is <<>>, a present value v is <<v>>.           *)
(*  - Floats are fixed point: industry scores are kept doubled (the only   *)
(*    fraction is the 0.5 sub-industry weight), role scores times 20       *)
(*    (weight 0.5 + len/20), metric weights times 10, and every confidence *)
(*    is in hundredths of a percent, i.e. round(c, 2) * 100.               *)
(***************************************************************************)
EXTENDS Integers, Sequences, FiniteSets, TLC

VARIABLES
  industry_data,   \* IndustryClassifier.industry_data
  size_data,       \* BusinessSizeAnalyzer.size_data
  role_data,       \* RoleRecognizer.role_data
  request,         \* the call being made: [op, ...arguments]
  response,        \* None before the call ran, then <<outcome>>
  locals,          \* the local variables of the call when it finished
  history,         \* the outcomes the caller got from earlier, identical calls
  files,           \* the taxonomy file at each configured path
  constructed,     \* the scorers that exist: their __init__ has run
  peer,            \* a second IndustryClassifier on the same industry_data_path
  knowledge_base   \* ValuePropositionGenerator.knowledge_base

vars ==
  <<industry_data, size_data, role_data, request, response, locals, history,
    files, constructed, peer, knowledge_base>>

None == <<>>
Some(v) == <<v>>
IsNone(x) == x = <<>>
Val(x) == x[1]

----------------------------------------------------------------------------
(* Strings *)

UpperToLower ==
  [A |-> "a", B |-> "b", C |-> "c", D |-> "d", E |-> "e", F |-> "f", G |-> "g",
   H |-> "h", I |-> "i", J |-> "j", K |-> "k", L |-> "l", M |-> "m", N |-> "n",
   O |-> "o", P |-> "p", Q |-> "q", R |-> "r", S |-> "s", T |-> "t", U |-> "u",
   V |-> "v", W |-> "w", X |-> "x", Y |-> "y", Z |-> "z"]

LowerLetters == {UpperToLower[c] : c \in DOMAIN UpperToLower}
Digits == {"0", "1", "2", "3", "4", "5", "6", "7", "8", "9"}

UpperLetters == DOMAIN UpperToLower
WordChars == UpperLetters \cup LowerLetters \cup Digits \cup {"_"}

\* str.lower()
RECURSIVE lower(_)
lower(s) ==
  IF s = <<>> THEN <<>>
  ELSE <<IF s[1] \in UpperLetters THEN UpperToLower[s[1]] ELSE s[1]>>
       \o lower(Tail(s))

\* the regex class \w on the characters used here
IsWordChar(c) == c \in WordChars

\* sep.join(parts)
RECURSIVE join(_, _)
join(sep, parts) ==
  IF parts = <<>> THEN <<>>
  ELSE IF Len(parts) = 1 THEN parts[1]
  ELSE parts[1] \o sep \o join(sep, Tail(parts))

\* the plain string spelled by a character sequence (used for dict keys)
RECURSIVE Str(_)
Str(s) == IF s = <<>> THEN "" ELSE s[1] \o Str(Tail(s))

\* variant: no word-boundary assertion, a plain substring search
NoWordBoundary(text, p) == TRUE

\* the regex assertion \b at the gap after the first p characters of text
WordAt(text, i) == i >= 1 /\ i <= Len(text) /\ IsWordChar(text[i])
WordBoundary(text, p) == WordAt(text, p) # WordAt(text, p + 1)

\* the pattern \b + re.escape(keyword) + \b matches text at position i
MatchAt(keyword, text, i) ==
  /\ text[i] = keyword[1]
  /\ i + Len(keyword) - 1 <= Len(text)
  /\ \A j \in 1..Len(keyword) : text[i + j - 1] = keyword[j]
  /\ WordBoundary(text, i - 1)
  /\ WordBoundary(text, i + Len(keyword) - 1)

\* len(re.findall(pattern, text)): leftmost non-overlapping matches from
\* position i on (keywords are nonempty strings)
RECURSIVE findall_from(_, _, _)
findall_from(keyword, text, i) ==
  IF i > Len(text) THEN 0
  ELSE IF MatchAt(keyword, text, i)
       THEN 1 + findall_from(keyword, text, i + Len(keyword))
       ELSE findall_from(keyword, text, i + 1)

findall_len(keyword, text) ==
  IF keyword = <<>> THEN 0 ELSE findall_from(keyword, text, 1)

----------------------------------------------------------------------------
(* dict helpers *)

HasKey(d, k) == \E i \in DOMAIN d : d[i].id = k
Get(d, k) == d[CHOOSE i \in DOMAIN d : d[i].id = k]

\* variant: ">=" in the scan, which keeps the last maximal entry
RECURSIVE max_from_last(_, _, _)
max_from_last(vals, best, i) ==
  IF i > Len(vals) THEN best
  ELSE IF vals[i] >= vals[best] THEN max_from_last(vals, i, i + 1)
       ELSE max_from_last(vals, best, i + 1)

\* max(d, key=d.get) over entries carrying the compared number in field f:
\* the index of the first entry of maximal value
RECURSIVE max_from(_, _, _)
max_from(vals, best, i) ==
  IF i > Len(vals) THEN best
  ELSE IF vals[i] > vals[best] THEN max_from(vals, i, i + 1)
       ELSE max_from(vals, best, i + 1)

max_index(vals) == max_from(vals, 1, 2)

RECURSIVE sum(_)
sum(vals) == IF vals = <<>> THEN 0 ELSE vals[1] + sum(Tail(vals))

\* round(100 * num / den, 2), in hundredths; Python rounds half to even
round2(num, den) ==
  LET n == 10000 * num
      q == n \div den
      r == n % den
  IN IF 2 * r < den THEN q
     ELSE IF 2 * r > den THEN q + 1
     ELSE IF q % 2 = 0 THEN q ELSE q + 1

----------------------------------------------------------------------------
(* Built-in default taxonomies *)

default_industry_data ==
  [industries |-> <<
    [id |-> "retail", name |-> "Retail",
     description |-> "Businesses that sell products directly to consumers.",
     keywords |-> <<
       <<"r","e","t","a","i","l">>,
       <<"s","t","o","r","e">>,
       <<"s","h","o","p">>,
       <<"e","-","c","o","m","m","e","r","c","e">>,
       <<"o","n","l","i","n","e"," ","s","t","o","r","e">>,
       <<"m","e","r","c","h","a","n","t">>,
       <<"s","e","l","l","e","r">>,
       <<"s","a","l","e","s">>,
       <<"c","o","n","s","u","m","e","r"," ","g","o","o","d","s">>,
       <<"s","h","o","p","p","i","n","g">>,
       <<"m","a","r","k","e","t","p","l","a","c","e">>
     >>,
     sub_industries |-> <<
        [id |-> "apparel", name |-> "Apparel and Fashion",
         keywords |-> <<
           <<"c","l","o","t","h","i","n","g">>,
           <<"f","a","s","h","i","o","n">>,
           <<"a","p","p","a","r","e","l">>,
           <<"s","h","o","e","s">>,
           <<"a","c","c","e","s","s","o","r","i","e","s">>,
           <<"j","e","w","e","l","r","y">>,
           <<"w","e","a","r","a","b","l","e","s">>
         >>],
        [id |-> "electronics", name |-> "Electronics and Appliances",
         keywords |-> <<
           <<"e","l","e","c","t","r","o","n","i","c","s">>,
           <<"a","p","p","l","i","a","n","c","e","s">>,
           <<"g","a","d","g","e","t","s">>,
           <<"d","e","v","i","c","e","s">>,
           <<"c","o","m","p","u","t","e","r","s">>,
           <<"p","h","o","n","e","s">>
         >>],
        [id |-> "grocery", name |-> "Grocery and Food Retail",
         keywords |-> <<
           <<"g","r","o","c","e","r","y">>,
           <<"s","u","p","e","r","m","a","r","k","e","t">>,
           <<"f","o","o","d">>,
           <<"b","e","v","e","r","a","g","e">>,
           <<"p","r","o","d","u","c","e">>,
           <<"m","a","r","k","e","t">>
         >>],
        [id |-> "home_goods", name |-> "Home Goods and Furniture",
         keywords |-> <<
           <<"f","u","r","n","i","t","u","r","e">>,
           <<"h","o","m","e"," ","g","o","o","d","s">>,
           <<"d","e","c","o","r">>,
           <<"h","o","u","s","e","w","a","r","e","s">>,
           <<"h","o","m","e"," ","i","m","p","r","o","v","e","m","e","n","t">>
         >>]
     >>],
    [id |-> "healthcare", name |-> "Healthcare",
     description |-> "Organizations involved in providing medical services, products, or facilities.",
     keywords |-> <<
       <<"h","e","a","l","t","h","c","a","r","e">>,
       <<"m","e","d","i","c","a","l">>,
       <<"h","e","a","l","t","h">>,
       <<"h","o","s","p","i","t","a","l">>,
       <<"c","l","i","n","i","c">>,
       <<"p","a","t","i","e","n","t">>,
       <<"d","o","c","t","o","r">>,
       <<"p","h","y","s","i","c","i","a","n">>,
       <<"c","a","r","e">>,
       <<"w","e","l","l","n","e","s","s">>,
       <<"t","r","e","a","t","m","e","n","t">>
     >>,
     sub_industries |-> <<
        [id |-> "providers", name |-> "Healthcare Providers",
         keywords |-> <<
           <<"h","o","s","p","i","t","a","l">>,
           <<"c","l","i","n","i","c">>,
           <<"d","o","c","t","o","r">>,
           <<"p","h","y","s","i","c","i","a","n">>,
           <<"n","u","r","s","e">>,
           <<"m","e","d","i","c","a","l"," ","p","r","a","c","t","i","c","e">>
         >>],
        [id |-> "pharma", name |-> "Pharmaceuticals",
         keywords |-> <<
           <<"p","h","a","r","m","a","c","e","u","t","i","c","a","l">>,
           <<"p","h","a","r","m","a">>,
           <<"d","r","u","g">>,
           <<"m","e","d","i","c","a","t","i","o","n">>,
           <<"m","e","d","i","c","i","n","e">>,
           <<"b","i","o","t","e","c","h">>
         >>],
        [id |-> "devices", name |-> "Medical Devices",
         keywords |-> <<
           <<"m","e","d","i","c","a","l"," ","d","e","v","i","c","e">>,
           <<"e","q","u","i","p","m","e","n","t">>,
           <<"d","i","a","g","n","o","s","t","i","c">>,
           <<"i","m","p","l","a","n","t">>,
           <<"p","r","o","s","t","h","e","t","i","c">>
         >>],
        [id |-> "insurance", name |-> "Health Insurance",
         keywords |-> <<
           <<"h","e","a","l","t","h"," ","i","n","s","u","r","a","n","c","e">>,
           <<"p","a","y","e","r">>,
           <<"c","o","v","e","r","a","g","e">>,
           <<"b","e","n","e","f","i","t","s">>,
           <<"c","l","a","i","m","s">>
         >>]
     >>],
    [id |-> "finance", name |-> "Finance",
     description |-> "Businesses that manage money, investments, and financial services.",
     keywords |-> <<
       <<"f","i","n","a","n","c","e">>,
       <<"b","a","n","k","i","n","g">>,
       <<"i","n","v","e","s","t","m","e","n","t">>,
       <<"f","i","n","a","n","c","i","a","l">>,
       <<"b","a","n","k">>,
       <<"i","n","s","u","r","a","n","c","e">>,
       <<"w","e","a","l","t","h">>,
       <<"m","o","n","e","y">>,
       <<"c","a","p","i","t","a","l">>,
       <<"l","o","a","n">>,
       <<"c","r","e","d","i","t">>,
       <<"a","s","s","e","t">>
     >>,
     sub_industries |-> <<
        [id |-> "banking", name |-> "Banking",
         keywords |-> <<
           <<"b","a","n","k">>,
           <<"b","a","n","k","i","n","g">>,
           <<"s","a","v","i","n","g","s">>,
           <<"c","h","e","c","k","i","n","g">>,
           <<"d","e","p","o","s","i","t">>,
           <<"l","o","a","n">>,
           <<"c","r","e","d","i","t">>
         >>],
        [id |-> "investment", name |-> "Investment and Wealth Management",
         keywords |-> <<
           <<"i","n","v","e","s","t","m","e","n","t">>,
           <<"w","e","a","l","t","h">>,
           <<"a","s","s","e","t">>,
           <<"p","o","r","t","f","o","l","i","o">>,
           <<"f","u","n","d">>,
           <<"s","t","o","c","k">>,
           <<"b","o","n","d">>
         >>],
        [id |-> "insurance", name |-> "Insurance",
         keywords |-> <<
           <<"i","n","s","u","r","a","n","c","e">>,
           <<"i","n","s","u","r","e","r">>,
           <<"p","o","l","i","c","y">>,
           <<"r","i","s","k">>,
           <<"u","n","d","e","r","w","r","i","t","i","n","g">>,
           <<"c","l","a","i","m">>
         >>],
        [id |-> "fintech", name |-> "Financial Technology",
         keywords |-> <<
           <<"f","i","n","t","e","c","h">>,
           <<"p","a","y","m","e","n","t">>,
           <<"d","i","g","i","t","a","l"," ","b","a","n","k","i","n","g">>,
           <<"b","l","o","c","k","c","h","a","i","n">>,
           <<"c","r","y","p","t","o","c","u","r","r","e","n","c","y">>
         >>]
     >>],
    [id |-> "manufacturing", name |-> "Manufacturing",
     description |-> "Businesses that produce goods through processing, fabrication, or assembly.",
     keywords |-> <<
       <<"m","a","n","u","f","a","c","t","u","r","i","n","g">>,
       <<"f","a","c","t","o","r","y">>,
       <<"p","r","o","d","u","c","t","i","o","n">>,
       <<"a","s","s","e","m","b","l","y">>,
       <<"f","a","b","r","i","c","a","t","i","o","n">>,
       <<"i","n","d","u","s","t","r","i","a","l">>,
       <<"m","a","c","h","i","n","e","r","y">>,
       <<"p","r","o","c","e","s","s","i","n","g">>,
       <<"m","a","t","e","r","i","a","l","s">>,
       <<"g","o","o","d","s">>
     >>,
     sub_industries |-> <<
        [id |-> "automotive", name |-> "Automotive Manufacturing",
         keywords |-> <<
           <<"a","u","t","o","m","o","t","i","v","e">>,
           <<"v","e","h","i","c","l","e">>,
           <<"c","a","r">>,
           <<"a","u","t","o"," ","p","a","r","t","s">>,
           <<"a","u","t","o","m","o","b","i","l","e">>
         >>],
        [id |-> "electronics", name |-> "Electronics Manufacturing",
         keywords |-> <<
           <<"e","l","e","c","t","r","o","n","i","c","s">>,
           <<"s","e","m","i","c","o","n","d","u","c","t","o","r">>,
           <<"c","i","r","c","u","i","t">>,
           <<"c","o","m","p","o","n","e","n","t">>,
           <<"d","e","v","i","c","e">>
         >>],
        [id |-> "consumer_goods", name |-> "Consumer Goods Manufacturing",
         keywords |-> <<
           <<"c","o","n","s","u","m","e","r"," ","g","o","o","d","s">>,
           <<"p","r","o","d","u","c","t">>,
           <<"p","a","c","k","a","g","e","d"," ","g","o","o","d","s">>,
           <<"h","o","u","s","e","h","o","l","d">>
         >>],
        [id |-> "industrial", name |-> "Industrial Manufacturing",
         keywords |-> <<
           <<"i","n","d","u","s","t","r","i","a","l">>,
           <<"m","a","c","h","i","n","e","r","y">>,
           <<"e","q","u","i","p","m","e","n","t">>,
           <<"h","e","a","v","y">>,
           <<"t","o","o","l">>
         >>]
     >>],
    [id |-> "technology", name |-> "Technology",
     description |-> "Businesses that develop or provide technology products and services.",
     keywords |-> <<
       <<"t","e","c","h","n","o","l","o","g","y">>,
       <<"s","o","f","t","w","a","r","e">>,
       <<"I","T">>,
       <<"t","e","c","h">>,
       <<"d","i","g","i","t","a","l">>,
       <<"c","o","m","p","u","t","e","r">>,
       <<"i","n","t","e","r","n","e","t">>,
       <<"w","e","b">>,
       <<"a","p","p">>,
       <<"c","l","o","u","d">>,
       <<"d","a","t","a">>,
       <<"p","l","a","t","f","o","r","m">>
     >>,
     sub_industries |-> <<
        [id |-> "software", name |-> "Software Development",
         keywords |-> <<
           <<"s","o","f","t","w","a","r","e">>,
           <<"a","p","p","l","i","c","a","t","i","o","n">>,
           <<"a","p","p">>,
           <<"d","e","v","e","l","o","p","m","e","n","t">>,
           <<"p","r","o","g","r","a","m","m","i","n","g">>,
           <<"S","a","a","S">>
         >>],
        [id |-> "hardware", name |-> "Hardware and Devices",
         keywords |-> <<
           <<"h","a","r","d","w","a","r","e">>,
           <<"d","e","v","i","c","e">>,
           <<"c","o","m","p","u","t","e","r">>,
           <<"s","e","r","v","e","r">>,
           <<"e","q","u","i","p","m","e","n","t">>
         >>],
        [id |-> "services", name |-> "IT Services",
         keywords |-> <<
           <<"I","T"," ","s","e","r","v","i","c","e">>,
           <<"c","o","n","s","u","l","t","i","n","g">>,
           <<"s","u","p","p","o","r","t">>,
           <<"m","a","n","a","g","e","d"," ","s","e","r","v","i","c","e">>,
           <<"o","u","t","s","o","u","r","c","i","n","g">>
         >>],
        [id |-> "internet", name |-> "Internet and Digital Media",
         keywords |-> <<
           <<"i","n","t","e","r","n","e","t">>,
           <<"w","e","b">>,
           <<"d","i","g","i","t","a","l"," ","m","e","d","i","a">>,
           <<"o","n","l","i","n","e">>,
           <<"p","l","a","t","f","o","r","m">>,
           <<"s","o","c","i","a","l"," ","m","e","d","i","a">>
         >>]
     >>],
    [id |-> "education", name |-> "Education",
     description |-> "Organizations that provide educational services and resources.",
     keywords |-> <<
       <<"e","d","u","c","a","t","i","o","n">>,
       <<"s","c","h","o","o","l">>,
       <<"u","n","i","v","e","r","s","i","t","y">>,
       <<"c","o","l","l","e","g","e">>,
       <<"a","c","a","d","e","m","i","c">>,
       <<"l","e","a","r","n","i","n","g">>,
       <<"t","e","a","c","h","i","n","g">>,
       <<"s","t","u","d","e","n","t">>,
       <<"c","o","u","r","s","e">>,
       <<"t","r","a","i","n","i","n","g">>,
       <<"e","d","u","c","a","t","i","o","n","a","l">>
     >>,
     sub_industries |-> <<
        [id |-> "k12", name |-> "K-12 Education",
         keywords |-> <<
           <<"s","c","h","o","o","l">>,
           <<"K","-","1","2">>,
           <<"e","l","e","m","e","n","t","a","r","y">>,
           <<"s","e","c","o","n","d","a","r","y">>,
           <<"h","i","g","h"," ","s","c","h","o","o","l">>
         >>],
        [id |-> "higher_ed", name |-> "Higher Education",
         keywords |-> <<
           <<"u","n","i","v","e","r","s","i","t","y">>,
           <<"c","o","l","l","e","g","e">>,
           <<"h","i","g","h","e","r"," ","e","d","u","c","a","t","i","o","n">>,
           <<"c","a","m","p","u","s">>,
           <<"d","e","g","r","e","e">>
         >>],
        [id |-> "edtech", name |-> "Educational Technology",
         keywords |-> <<
           <<"e","d","t","e","c","h">>,
           <<"e","-","l","e","a","r","n","i","n","g">>,
           <<"o","n","l","i","n","e"," ","l","e","a","r","n","i","n","g">>,
           <<"e","d","u","c","a","t","i","o","n","a","l"," ","s","o","f","t","w","a","r","e">>
         >>],
        [id |-> "training", name |-> "Professional Training",
         keywords |-> <<
           <<"t","r","a","i","n","i","n","g">>,
           <<"p","r","o","f","e","s","s","i","o","n","a","l"," ","d","e","v","e","l","o","p","m","e","n","t">>,
           <<"c","e","r","t","i","f","i","c","a","t","i","o","n">>,
           <<"s","k","i","l","l">>
         >>]
     >>],
    [id |-> "hospitality", name |-> "Hospitality and Tourism",
     description |-> "Businesses that provide accommodation, food, and travel services.",
     keywords |-> <<
       <<"h","o","s","p","i","t","a","l","i","t","y">>,
       <<"h","o","t","e","l">>,
       <<"r","e","s","t","a","u","r","a","n","t">>,
       <<"t","o","u","r","i","s","m">>,
       <<"t","r","a","v","e","l">>,
       <<"a","c","c","o","m","m","o","d","a","t","i","o","n">>,
       <<"l","o","d","g","i","n","g">>,
       <<"f","o","o","d"," ","s","e","r","v","i","c","e">>,
       <<"c","a","t","e","r","i","n","g">>,
       <<"l","e","i","s","u","r","e">>,
       <<"g","u","e","s","t">>
     >>,
     sub_industries |-> <<
        [id |-> "accommodation", name |-> "Accommodation",
         keywords |-> <<
           <<"h","o","t","e","l">>,
           <<"m","o","t","e","l">>,
           <<"r","e","s","o","r","t">>,
           <<"l","o","d","g","i","n","g">>,
           <<"i","n","n">>,
           <<"a","c","c","o","m","m","o","d","a","t","i","o","n">>
         >>],
        [id |-> "food_service", name |-> "Food Service",
         keywords |-> <<
           <<"r","e","s","t","a","u","r","a","n","t">>,
           <<"c","a","f","e">>,
           <<"c","a","t","e","r","i","n","g">>,
           <<"f","o","o","d"," ","s","e","r","v","i","c","e">>,
           <<"d","i","n","i","n","g">>
         >>],
        [id |-> "travel", name |-> "Travel and Tourism",
         keywords |-> <<
           <<"t","r","a","v","e","l">>,
           <<"t","o","u","r","i","s","m">>,
           <<"t","o","u","r">>,
           <<"v","a","c","a","t","i","o","n">>,
           <<"d","e","s","t","i","n","a","t","i","o","n">>
         >>],
        [id |-> "entertainment", name |-> "Entertainment and Recreation",
         keywords |-> <<
           <<"e","n","t","e","r","t","a","i","n","m","e","n","t">>,
           <<"r","e","c","r","e","a","t","i","o","n">>,
           <<"a","t","t","r","a","c","t","i","o","n">>,
           <<"e","v","e","n","t">>,
           <<"l","e","i","s","u","r","e">>
         >>]
     >>],
    [id |-> "professional_services", name |-> "Professional Services",
     description |-> "Businesses that provide specialized professional services.",
     keywords |-> <<
       <<"p","r","o","f","e","s","s","i","o","n","a","l"," ","s","e","r","v","i","c","e","s">>,
       <<"c","o","n","s","u","l","t","i","n","g">>,
       <<"l","e","g","a","l">>,
       <<"a","c","c","o","u","n","t","i","n","g">>,
       <<"a","d","v","i","s","o","r","y">>,
       <<"s","e","r","v","i","c","e"," ","f","i","r","m">>,
       <<"p","r","o","f","e","s","s","i","o","n","a","l">>,
       <<"e","x","p","e","r","t">>,
       <<"c","o","n","s","u","l","t","a","n","t">>,
       <<"a","d","v","i","s","o","r">>
     >>,
     sub_industries |-> <<
        [id |-> "legal", name |-> "Legal Services",
         keywords |-> <<
           <<"l","e","g","a","l">>,
           <<"l","a","w"," ","f","i","r","m">>,
           <<"a","t","t","o","r","n","e","y">>,
           <<"l","a","w","y","e","r">>,
           <<"c","o","u","n","s","e","l">>
         >>],
        [id |-> "accounting", name |-> "Accounting and Tax",
         keywords |-> <<
           <<"a","c","c","o","u","n","t","i","n","g">>,
           <<"a","c","c","o","u","n","t","a","n","t">>,
           <<"t","a","x">>,
           <<"a","u","d","i","t">>,
           <<"b","o","o","k","k","e","e","p","i","n","g">>
         >>],
        [id |-> "consulting", name |-> "Management Consulting",
         keywords |-> <<
           <<"c","o","n","s","u","l","t","i","n","g">>,
           <<"c","o","n","s","u","l","t","a","n","t">>,
           <<"a","d","v","i","s","o","r","y">>,
           <<"s","t","r","a","t","e","g","y">>,
           <<"m","a","n","a","g","e","m","e","n","t">>
         >>],
        [id |-> "marketing", name |-> "Marketing and Advertising",
         keywords |-> <<
           <<"m","a","r","k","e","t","i","n","g">>,
           <<"a","d","v","e","r","t","i","s","i","n","g">>,
           <<"a","g","e","n","c","y">>,
           <<"P","R">>,
           <<"m","e","d","i","a">>,
           <<"b","r","a","n","d","i","n","g">>
         >>]
     >>]
  >>]

default_size_data ==
  [general_thresholds |-> <<
    [id |-> "employees", ranges |-> <<
       [id |-> "micro", min |-> Some(1), max |-> Some(10)],
       [id |-> "small", min |-> Some(11), max |-> Some(50)],
       [id |-> "medium", min |-> Some(51), max |-> Some(250)],
       [id |-> "large", min |-> Some(251), max |-> Some(1000)],
       [id |-> "enterprise", min |-> Some(1001), max |-> None] >>],
    [id |-> "revenue", ranges |-> <<
       [id |-> "micro", min |-> Some(0), max |-> Some(1000000)],
       [id |-> "small", min |-> Some(1000001), max |-> Some(10000000)],
       [id |-> "medium", min |-> Some(10000001), max |-> Some(50000000)],
       [id |-> "large", min |-> Some(50000001), max |-> Some(1000000000)],
       [id |-> "enterprise", min |-> Some(1000000001), max |-> None] >>]
   >>,
   industry_specific_thresholds |-> <<
    [id |-> "retail", thresholds |-> <<
      [id |-> "employees", ranges |-> <<
         [id |-> "small", min |-> Some(1), max |-> Some(50)],
         [id |-> "medium", min |-> Some(51), max |-> Some(200)],
         [id |-> "enterprise", min |-> Some(201), max |-> None] >>],
      [id |-> "revenue", ranges |-> <<
         [id |-> "small", min |-> Some(0), max |-> Some(5000000)],
         [id |-> "medium", min |-> Some(5000001), max |-> Some(50000000)],
         [id |-> "enterprise", min |-> Some(50000001), max |-> None] >>],
      [id |-> "locations", ranges |-> <<
         [id |-> "small", min |-> Some(1), max |-> Some(3)],
         [id |-> "medium", min |-> Some(4), max |-> Some(20)],
         [id |-> "enterprise", min |-> Some(21), max |-> None] >>] >>],
    [id |-> "healthcare", thresholds |-> <<
      [id |-> "employees", ranges |-> <<
         [id |-> "small", min |-> Some(1), max |-> Some(100)],
         [id |-> "medium", min |-> Some(101), max |-> Some(500)],
         [id |-> "enterprise", min |-> Some(501), max |-> None] >>],
      [id |-> "revenue", ranges |-> <<
         [id |-> "small", min |-> Some(0), max |-> Some(10000000)],
         [id |-> "medium", min |-> Some(10000001), max |-> Some(100000000)],
         [id |-> "enterprise", min |-> Some(100000001), max |-> None] >>],
      [id |-> "beds", ranges |-> <<
         [id |-> "small", min |-> Some(1), max |-> Some(100)],
         [id |-> "medium", min |-> Some(101), max |-> Some(500)],
         [id |-> "enterprise", min |-> Some(501), max |-> None] >>] >>],
    [id |-> "finance", thresholds |-> <<
      [id |-> "employees", ranges |-> <<
         [id |-> "small", min |-> Some(1), max |-> Some(100)],
         [id |-> "medium", min |-> Some(101), max |-> Some(1000)],
         [id |-> "enterprise", min |-> Some(1001), max |-> None] >>],
      [id |-> "revenue", ranges |-> <<
         [id |-> "small", min |-> Some(0), max |-> Some(20000000)],
         [id |-> "medium", min |-> Some(20000001), max |-> Some(500000000)],
         [id |-> "enterprise", min |-> Some(500000001), max |-> None] >>],
      [id |-> "assets_under_management", ranges |-> <<
         [id |-> "small", min |-> Some(0), max |-> Some(100000000)],
         [id |-> "medium", min |-> Some(100000001), max |-> Some(1000000000)],
         [id |-> "enterprise", min |-> Some(1000000001), max |-> None] >>] >>],
    [id |-> "manufacturing", thresholds |-> <<
      [id |-> "employees", ranges |-> <<
         [id |-> "small", min |-> Some(1), max |-> Some(100)],
         [id |-> "medium", min |-> Some(101), max |-> Some(500)],
         [id |-> "enterprise", min |-> Some(501), max |-> None] >>],
      [id |-> "revenue", ranges |-> <<
         [id |-> "small", min |-> Some(0), max |-> Some(20000000)],
         [id |-> "medium", min |-> Some(20000001), max |-> Some(100000000)],
         [id |-> "enterprise", min |-> Some(100000001), max |-> None] >>],
      [id |-> "production_volume", ranges |-> <<
         [id |-> "small", min |-> Some(0), max |-> Some(1000000)],
         [id |-> "medium", min |-> Some(1000001), max |-> Some(10000000)],
         [id |-> "enterprise", min |-> Some(10000001), max |-> None] >>] >>],
    [id |-> "technology", thresholds |-> <<
      [id |-> "employees", ranges |-> <<
         [id |-> "small", min |-> Some(1), max |-> Some(50)],
         [id |-> "medium", min |-> Some(51), max |-> Some(250)],
         [id |-> "enterprise", min |-> Some(251), max |-> None] >>],
      [id |-> "revenue", ranges |-> <<
         [id |-> "small", min |-> Some(0), max |-> Some(10000000)],
         [id |-> "medium", min |-> Some(10000001), max |-> Some(100000000)],
         [id |-> "enterprise", min |-> Some(100000001), max |-> None] >>],
      [id |-> "users", ranges |-> <<
         [id |-> "small", min |-> Some(0), max |-> Some(10000)],
         [id |-> "medium", min |-> Some(10001), max |-> Some(1000000)],
         [id |-> "enterprise", min |-> Some(1000001), max |-> None] >>] >>]
   >>,
   size_characteristics |-> <<
    [id |-> "small",
     description |-> "Small businesses typically have limited resources, simpler organizational structures, and more direct decision-making processes.",
     challenges |-> <<
       "Limited budget and resources",
       "Wearing multiple hats (employees perform multiple roles)",
       "Difficulty competing with larger businesses",
       "Limited access to capital",
       "Less formal processes and documentation"
     >>,
     opportunities |-> <<
       "Agility and quick decision-making",
       "Personal customer relationships",
       "Niche market focus",
       "Flexibility to adapt quickly",
       "Less bureaucracy"
     >>],
    [id |-> "medium",
     description |-> "Medium-sized businesses have more resources than small businesses but still maintain some flexibility. They typically have more formal structures and specialized roles.",
     challenges |-> <<
       "Growing pains during scaling",
       "Balancing formality with flexibility",
       "Developing middle management",
       "Standardizing processes across the organization",
       "Competing with both small and large businesses"
     >>,
     opportunities |-> <<
       "Established market presence",
       "More resources for growth and innovation",
       "Ability to serve larger clients",
       "More specialized expertise",
       "Better economies of scale than small businesses"
     >>],
    [id |-> "enterprise",
     description |-> "Enterprise businesses are large organizations with complex structures, formal processes, and significant resources. They typically operate at scale across multiple locations or markets.",
     challenges |-> <<
       "Organizational complexity",
       "Slower decision-making processes",
       "Maintaining innovation and agility",
       "Managing large workforces",
       "Coordinating across departments and regions"
     >>,
     opportunities |-> <<
       "Significant resources for investment",
       "Strong market position and brand recognition",
       "Economies of scale",
       "Ability to influence industry standards",
       "Global reach and capabilities"
     >>]
   >>]

default_role_data ==
  [organizational_roles |-> <<
    [id |-> "executive", name |-> "Executive",
     description |-> "Senior leadership responsible for strategic decisions and overall direction.",
     keywords |-> <<
       <<"C","E","O">>,
       <<"C","F","O">>,
       <<"C","T","O">>,
       <<"C","I","O">>,
       <<"C","O","O">>,
       <<"C","M","O">>,
       <<"C","H","R","O">>,
       <<"e","x","e","c","u","t","i","v","e">>,
       <<"c","h","i","e","f">>,
       <<"p","r","e","s","i","d","e","n","t">>,
       <<"v","i","c","e"," ","p","r","e","s","i","d","e","n","t">>,
       <<"V","P">>,
       <<"d","i","r","e","c","t","o","r">>,
       <<"h","e","a","d">>,
       <<"f","o","u","n","d","e","r">>,
       <<"o","w","n","e","r">>,
       <<"p","a","r","t","n","e","r">>,
       <<"b","o","a","r","d"," ","m","e","m","b","e","r">>,
       <<"c","h","a","i","r","m","a","n">>,
       <<"c","h","a","i","r","w","o","m","a","n">>
     >>,
     interests |-> <<
       "strategic planning",
       "business growth",
       "market positioning",
       "competitive advantage",
       "financial performance",
       "organizational development",
       "risk management",
       "innovation strategy",
       "leadership"
     >>,
     communication_preferences |-> [style |-> "concise, strategic, business-focused",
        detail_level |-> "high-level with key details",
        data_focus |-> "outcomes, ROI, strategic impact",
        time_sensitivity |-> "highly time-sensitive, respect for limited availability"]],
    [id |-> "manager", name |-> "Manager",
     description |-> "Mid-level leadership responsible for team performance and operational execution.",
     keywords |-> <<
       <<"m","a","n","a","g","e","r">>,
       <<"s","u","p","e","r","v","i","s","o","r">>,
       <<"t","e","a","m"," ","l","e","a","d">>,
       <<"p","r","o","j","e","c","t"," ","m","a","n","a","g","e","r">>,
       <<"d","e","p","a","r","t","m","e","n","t"," ","h","e","a","d">>,
       <<"c","o","o","r","d","i","n","a","t","o","r">>,
       <<"a","d","m","i","n","i","s","t","r","a","t","o","r">>,
       <<"l","e","a","d">>,
       <<"s","e","n","i","o","r">>,
       <<"p","r","i","n","c","i","p","a","l">>
     >>,
     interests |-> <<
       "team productivity",
       "process improvement",
       "resource allocation",
       "performance metrics",
       "project management",
       "staff development",
       "operational efficiency",
       "budget management",
       "team collaboration"
     >>,
     communication_preferences |-> [style |-> "practical, action-oriented, solution-focused",
        detail_level |-> "balanced with actionable details",
        data_focus |-> "performance metrics, efficiency gains, resource utilization",
        time_sensitivity |-> "moderate, focused on operational timelines"]],
    [id |-> "specialist", name |-> "Specialist",
     description |-> "Individual contributor with specialized expertise in a specific domain.",
     keywords |-> <<
       <<"s","p","e","c","i","a","l","i","s","t">>,
       <<"e","x","p","e","r","t">>,
       <<"a","n","a","l","y","s","t">>,
       <<"e","n","g","i","n","e","e","r">>,
       <<"d","e","v","e","l","o","p","e","r">>,
       <<"d","e","s","i","g","n","e","r">>,
       <<"c","o","n","s","u","l","t","a","n","t">>,
       <<"t","e","c","h","n","i","c","i","a","n">>,
       <<"a","s","s","o","c","i","a","t","e">>,
       <<"p","r","o","f","e","s","s","i","o","n","a","l">>,
       <<"a","d","v","i","s","o","r">>,
       <<"r","e","p","r","e","s","e","n","t","a","t","i","v","e">>,
       <<"a","g","e","n","t">>,
       <<"c","o","o","r","d","i","n","a","t","o","r">>
     >>,
     interests |-> <<
       "technical details",
       "domain expertise",
       "best practices",
       "tools and technologies",
       "skill development",
       "problem solving",
       "technical challenges",
       "innovation",
       "efficiency improvements",
       "professional development"
     >>,
     communication_preferences |-> [style |-> "detailed, technical, evidence-based",
        detail_level |-> "comprehensive with technical specifics",
        data_focus |-> "technical metrics, detailed analysis, implementation specifics",
        time_sensitivity |-> "variable, focused on task completion"]]
   >>,
   functional_roles |-> <<
    [id |-> "technology", name |-> "Technology",
     description |-> "Roles focused on technology development, implementation, and management.",
     keywords |-> <<
       <<"d","e","v","e","l","o","p","e","r">>,
       <<"e","n","g","i","n","e","e","r">>,
       <<"p","r","o","g","r","a","m","m","e","r">>,
       <<"a","r","c","h","i","t","e","c","t">>,
       <<"a","d","m","i","n","i","s","t","r","a","t","o","r">>,
       <<"t","e","c","h","n","i","c","i","a","n">>,
       <<"a","n","a","l","y","s","t">>,
       <<"I","T">>,
       <<"t","e","c","h","n","i","c","a","l">>,
       <<"s","o","f","t","w","a","r","e">>,
       <<"h","a","r","d","w","a","r","e">>,
       <<"n","e","t","w","o","r","k">>,
       <<"d","a","t","a","b","a","s","e">>,
       <<"s","e","c","u","r","i","t","y">>,
       <<"s","u","p","p","o","r","t">>,
       <<"D","e","v","O","p","s">>,
       <<"Q","A">>
     >>,
     interests |-> <<
       "technology stack",
       "development methodologies",
       "technical specifications",
       "system architecture",
       "code quality",
       "performance optimization",
       "security considerations",
       "integration capabilities",
       "scalability"
     >>],
    [id |-> "marketing", name |-> "Marketing",
     description |-> "Roles focused on promoting products/services and building brand awareness.",
     keywords |-> <<
       <<"m","a","r","k","e","t","i","n","g">>,
       <<"b","r","a","n","d">>,
       <<"a","d","v","e","r","t","i","s","i","n","g">>,
       <<"c","o","m","m","u","n","i","c","a","t","i","o","n","s">>,
       <<"P","R">>,
       <<"p","u","b","l","i","c"," ","r","e","l","a","t","i","o","n","s">>,
       <<"c","o","n","t","e","n","t">>,
       <<"s","o","c","i","a","l"," ","m","e","d","i","a">>,
       <<"d","i","g","i","t","a","l">>,
       <<"c","a","m","p","a","i","g","n">>,
       <<"m","a","r","k","e","t"," ","r","e","s","e","a","r","c","h">>,
       <<"S","E","O">>,
       <<"g","r","o","w","t","h">>,
       <<"a","c","q","u","i","s","i","t","i","o","n">>,
       <<"e","n","g","a","g","e","m","e","n","t">>,
       <<"r","e","t","e","n","t","i","o","n">>,
       <<"c","o","n","v","e","r","s","i","o","n">>
     >>,
     interests |-> <<
       "customer acquisition",
       "brand positioning",
       "campaign performance",
       "market trends",
       "customer engagement",
       "content strategy",
       "conversion optimization",
       "audience targeting",
       "marketing analytics"
     >>],
    [id |-> "sales", name |-> "Sales",
     description |-> "Roles focused on selling products/services and managing customer relationships.",
     keywords |-> <<
       <<"s","a","l","e","s">>,
       <<"a","c","c","o","u","n","t">>,
       <<"b","u","s","i","n","e","s","s"," ","d","e","v","e","l","o","p","m","e","n","t">>,
       <<"c","u","s","t","o","m","e","r"," ","s","u","c","c","e","s","s">>,
       <<"r","e","l","a","t","i","o","n","s","h","i","p">>,
       <<"r","e","v","e","n","u","e">>,
       <<"d","e","a","l">>,
       <<"p","i","p","e","l","i","n","e">>,
       <<"f","o","r","e","c","a","s","t">>,
       <<"q","u","o","t","a">>,
       <<"p","r","o","s","p","e","c","t">>,
       <<"l","e","a","d">>,
       <<"o","p","p","o","r","t","u","n","i","t","y">>,
       <<"c","l","i","e","n","t">>,
       <<"c","u","s","t","o","m","e","r">>
     >>,
     interests |-> <<
       "sales process",
       "customer acquisition",
       "deal closing",
       "revenue growth",
       "customer relationships",
       "competitive positioning",
       "value proposition",
       "pricing strategy",
       "sales enablement",
       "customer success"
     >>],
    [id |-> "finance", name |-> "Finance",
     description |-> "Roles focused on financial management, analysis, and reporting.",
     keywords |-> <<
       <<"f","i","n","a","n","c","e">>,
       <<"a","c","c","o","u","n","t","i","n","g">>,
       <<"f","i","n","a","n","c","i","a","l">>,
       <<"b","u","d","g","e","t">>,
       <<"f","o","r","e","c","a","s","t">>,
       <<"a","n","a","l","y","s","i","s">>,
       <<"c","o","n","t","r","o","l","l","e","r">>,
       <<"t","r","e","a","s","u","r","e","r">>,
       <<"a","u","d","i","t","o","r">>,
       <<"t","a","x">>,
       <<"i","n","v","e","s","t","m","e","n","t">>,
       <<"c","a","p","i","t","a","l">>,
       <<"r","e","v","e","n","u","e">>,
       <<"e","x","p","e","n","s","e">>,
       <<"p","r","o","f","i","t">>,
       <<"l","o","s","s">>,
       <<"c","a","s","h"," ","f","l","o","w">>,
       <<"b","a","l","a","n","c","e"," ","s","h","e","e","t">>
     >>,
     interests |-> <<
       "financial performance",
       "cost management",
       "budget planning",
       "financial reporting",
       "risk assessment",
       "investment analysis",
       "cash flow management",
       "profitability analysis",
       "financial controls"
     >>],
    [id |-> "operations", name |-> "Operations",
     description |-> "Roles focused on day-to-day business operations and process management.",
     keywords |-> <<
       <<"o","p","e","r","a","t","i","o","n","s">>,
       <<"p","r","o","c","e","s","s">>,
       <<"p","r","o","d","u","c","t","i","o","n">>,
       <<"l","o","g","i","s","t","i","c","s">>,
       <<"s","u","p","p","l","y"," ","c","h","a","i","n">>,
       <<"p","r","o","c","u","r","e","m","e","n","t">>,
       <<"i","n","v","e","n","t","o","r","y">>,
       <<"q","u","a","l","i","t","y">>,
       <<"f","a","c","i","l","i","t","i","e","s">>,
       <<"m","a","n","u","f","a","c","t","u","r","i","n","g">>,
       <<"d","i","s","t","r","i","b","u","t","i","o","n">>,
       <<"w","a","r","e","h","o","u","s","e">>,
       <<"f","u","l","f","i","l","l","m","e","n","t">>,
       <<"s","e","r","v","i","c","e"," ","d","e","l","i","v","e","r","y">>
     >>,
     interests |-> <<
       "operational efficiency",
       "process optimization",
       "quality control",
       "resource utilization",
       "supply chain management",
       "inventory management",
       "service delivery",
       "operational costs",
       "compliance",
       "risk management"
     >>],
    [id |-> "human_resources", name |-> "Human Resources",
     description |-> "Roles focused on people management, talent development, and organizational culture.",
     keywords |-> <<
       <<"H","R">>,
       <<"h","u","m","a","n"," ","r","e","s","o","u","r","c","e","s">>,
       <<"p","e","o","p","l","e">>,
       <<"t","a","l","e","n","t">>,
       <<"r","e","c","r","u","i","t","m","e","n","t">>,
       <<"h","i","r","i","n","g">>,
       <<"t","r","a","i","n","i","n","g">>,
       <<"d","e","v","e","l","o","p","m","e","n","t">>,
       <<"c","o","m","p","e","n","s","a","t","i","o","n">>,
       <<"b","e","n","e","f","i","t","s">>,
       <<"c","u","l","t","u","r","e">>,
       <<"e","m","p","l","o","y","e","e">>,
       <<"w","o","r","k","f","o","r","c","e">>,
       <<"s","t","a","f","f">>,
       <<"p","e","r","s","o","n","n","e","l">>,
       <<"o","r","g","a","n","i","z","a","t","i","o","n","a","l">>
     >>,
     interests |-> <<
       "talent acquisition",
       "employee development",
       "performance management",
       "compensation strategy",
       "employee engagement",
       "organizational culture",
       "workforce planning",
       "compliance",
       "employee experience",
       "retention"
     >>]
   >>,
   industry_specific_roles |-> <<
    [id |-> "healthcare", roles |-> <<
      [id |-> "clinical", name |-> "Clinical",
       description |-> "Healthcare professionals directly involved in patient care.",
       keywords |-> <<
         <<"d","o","c","t","o","r">>,
         <<"p","h","y","s","i","c","i","a","n">>,
         <<"n","u","r","s","e">>,
         <<"p","r","a","c","t","i","t","i","o","n","e","r">>,
         <<"t","h","e","r","a","p","i","s","t">>,
         <<"c","l","i","n","i","c","i","a","n">>,
         <<"m","e","d","i","c","a","l">>,
         <<"c","l","i","n","i","c","a","l">>,
         <<"p","a","t","i","e","n","t"," ","c","a","r","e">>,
         <<"t","r","e","a","t","m","e","n","t">>,
         <<"d","i","a","g","n","o","s","i","s">>
       >>,
       interests |-> <<
         "patient outcomes",
         "clinical workflows",
         "treatment protocols",
         "medical records",
         "patient management",
         "care coordination",
         "clinical decision support",
         "evidence-based practice"
       >>],
      [id |-> "administrative", name |-> "Healthcare Administration",
       description |-> "Professionals managing healthcare operations and compliance.",
       keywords |-> <<
         <<"a","d","m","i","n","i","s","t","r","a","t","o","r">>,
         <<"c","o","o","r","d","i","n","a","t","o","r">>,
         <<"d","i","r","e","c","t","o","r">>,
         <<"m","a","n","a","g","e","r">>,
         <<"c","o","m","p","l","i","a","n","c","e">>,
         <<"b","i","l","l","i","n","g">>,
         <<"c","o","d","i","n","g">>,
         <<"r","e","c","o","r","d","s">>,
         <<"r","e","g","u","l","a","t","o","r","y">>,
         <<"o","p","e","r","a","t","i","o","n","s">>
       >>,
       interests |-> <<
         "regulatory compliance",
         "operational efficiency",
         "patient satisfaction",
         "healthcare costs",
         "facility management",
         "staff coordination",
         "healthcare policy",
         "quality metrics",
         "accreditation"
       >>]
     >>],
    [id |-> "finance", roles |-> <<
      [id |-> "investment", name |-> "Investment Professional",
       description |-> "Professionals managing investments and financial assets.",
       keywords |-> <<
         <<"i","n","v","e","s","t","m","e","n","t">>,
         <<"p","o","r","t","f","o","l","i","o">>,
         <<"a","s","s","e","t">>,
         <<"w","e","a","l","t","h">>,
         <<"a","d","v","i","s","o","r">>,
         <<"b","a","n","k","e","r">>,
         <<"t","r","a","d","e","r">>,
         <<"a","n","a","l","y","s","t">>,
         <<"f","u","n","d">>,
         <<"c","a","p","i","t","a","l">>,
         <<"s","e","c","u","r","i","t","i","e","s">>
       >>,
       interests |-> <<
         "investment performance",
         "market analysis",
         "portfolio management",
         "risk assessment",
         "asset allocation",
         "client relationships",
         "financial planning",
         "wealth management",
         "market trends"
       >>],
      [id |-> "banking", name |-> "Banking Professional",
       description |-> "Professionals working in banking and financial services.",
       keywords |-> <<
         <<"b","a","n","k","e","r">>,
         <<"t","e","l","l","e","r">>,
         <<"l","o","a","n">>,
         <<"c","r","e","d","i","t">>,
         <<"b","r","a","n","c","h">>,
         <<"b","a","n","k","i","n","g">>,
         <<"a","c","c","o","u","n","t">>,
         <<"d","e","p","o","s","i","t">>,
         <<"m","o","r","t","g","a","g","e">>,
         <<"f","i","n","a","n","c","i","a","l"," ","s","e","r","v","i","c","e","s">>
       >>,
       interests |-> <<
         "customer service",
         "account management",
         "lending practices",
         "banking regulations",
         "financial products",
         "customer acquisition",
         "risk management",
         "digital banking",
         "branch operations"
       >>]
     >>],
    [id |-> "retail", roles |-> <<
      [id |-> "merchandising", name |-> "Merchandising Professional",
       description |-> "Professionals managing product selection, pricing, and presentation.",
       keywords |-> <<
         <<"m","e","r","c","h","a","n","d","i","s","e","r">>,
         <<"b","u","y","e","r">>,
         <<"p","r","o","d","u","c","t">>,
         <<"a","s","s","o","r","t","m","e","n","t">>,
         <<"c","a","t","e","g","o","r","y">>,
         <<"p","r","i","c","i","n","g">>,
         <<"p","r","o","m","o","t","i","o","n">>,
         <<"i","n","v","e","n","t","o","r","y">>,
         <<"r","e","t","a","i","l">>,
         <<"p","u","r","c","h","a","s","i","n","g">>
       >>,
       interests |-> <<
         "product selection",
         "inventory management",
         "pricing strategy",
         "product placement",
         "seasonal planning",
         "vendor relationships",
         "sales performance",
         "market trends",
         "customer preferences"
       >>],
      [id |-> "store_operations", name |-> "Store Operations Professional",
       description |-> "Professionals managing retail store operations and customer experience.",
       keywords |-> <<
         <<"s","t","o","r","e">>,
         <<"r","e","t","a","i","l">>,
         <<"s","h","o","p">>,
         <<"m","a","n","a","g","e","r">>,
         <<"a","s","s","o","c","i","a","t","e">>,
         <<"s","a","l","e","s"," ","f","l","o","o","r">>,
         <<"c","u","s","t","o","m","e","r"," ","s","e","r","v","i","c","e">>,
         <<"o","p","e","r","a","t","i","o","n","s">>,
         <<"c","a","s","h","i","e","r">>,
         <<"f","l","o","o","r">>
       >>,
       interests |-> <<
         "store performance",
         "customer experience",
         "staff management",
         "visual merchandising",
         "loss prevention",
         "sales targets",
         "operational efficiency",
         "customer service",
         "store layout"
       >>]
     >>]
   >>,
   communication_strategies |-> <<
    [id |-> "executive",
     content_focus |-> <<
       "Strategic impact and business outcomes",
       "ROI and financial implications",
       "Competitive advantage and market positioning",
       "Risk assessment and mitigation",
       "High-level implementation considerations"
     >>,
     presentation_style |-> <<
       "Begin with key conclusions and recommendations",
       "Use executive summaries with clear, actionable insights",
       "Include visual representations of data and trends",
       "Provide strategic context for recommendations",
       "Offer clear next steps and decision points"
     >>,
     language_patterns |-> <<
       "Strategic, forward-looking terminology",
       "Business outcome-focused language",
       "Confident, decisive phrasing",
       "Industry-specific executive terminology",
       "Concise, impactful statements"
     >>],
    [id |-> "manager",
     content_focus |-> <<
       "Operational implementation details",
       "Team impact and resource requirements",
       "Performance metrics and measurement",
       "Process improvements and efficiency gains",
       "Timeline and milestone planning"
     >>,
     presentation_style |-> <<
       "Balance strategic context with tactical details",
       "Include implementation roadmaps and timelines",
       "Provide team-level impact analysis",
       "Offer resource allocation recommendations",
       "Include change management considerations"
     >>,
     language_patterns |-> <<
       "Action-oriented, practical terminology",
       "Team and resource-focused language",
       "Process and implementation phrasing",
       "Balanced technical and business terminology",
       "Clear direction and guidance statements"
     >>],
    [id |-> "specialist",
     content_focus |-> <<
       "Technical details and specifications",
       "Implementation methodologies and best practices",
       "Tool-specific features and capabilities",
       "Technical challenges and solutions",
       "Detailed performance metrics and analysis"
     >>,
     presentation_style |-> <<
       "Provide comprehensive technical details",
       "Include technical diagrams and specifications",
       "Reference industry standards and best practices",
       "Offer detailed implementation guidance",
       "Include technical comparisons and benchmarks"
     >>,
     language_patterns |-> <<
       "Technically precise terminology",
       "Domain-specific jargon and acronyms",
       "Detailed, specific descriptions",
       "Evidence-based, analytical phrasing",
       "Implementation-focused language"
     >>]
   >>]

----------------------------------------------------------------------------
(* IndustryClassifier.classify_industry *)

\* description_lower after the optional keywords were appended
description_lower(business_description, additional_keywords) ==
  LET d == lower(business_description)
  IN IF ~IsNone(additional_keywords) /\ Val(additional_keywords) # <<>>
     THEN d \o <<" ">> \o
          join(<<" ">>, [i \in 1..Len(Val(additional_keywords)) |->
                           lower(Val(additional_keywords)[i])])
     ELSE d

\* the loop "for keyword in keywords: count = ...; if count > 0: acc += count * w"
RECURSIVE keyword_counts(_, _, _)
keyword_counts(keywords, text, w) ==
  IF keywords = <<>> THEN 0
  ELSE LET count == findall_len(keywords[1], text)
       IN (IF count > 0 THEN count * w ELSE 0)
          + keyword_counts(Tail(keywords), text, w)

\* the loop over industry_info["sub_industries"]: sub_industry_scores[industry_id],
\* one entry per sub-industry in iteration order, each keyword occurrence
\* weighing 1
RECURSIVE sub_scores_of(_, _)
sub_scores_of(sub_industries, text) ==
  IF sub_industries = <<>> THEN <<>>
  ELSE <<[id |-> sub_industries[1].id,
          score |-> keyword_counts(sub_industries[1].keywords, text, 1)]>>
       \o sub_scores_of(Tail(sub_industries), text)

RECURSIVE sum_field_score(_)
sum_field_score(entries) ==
  IF entries = <<>> THEN 0 ELSE entries[1].score + sum_field_score(Tail(entries))

\* variant: sub-industry keyword occurrences at full weight
industry_score_x2_full_weight(industry_info, sub_scores, text) ==
  keyword_counts(industry_info.keywords, text, 2) + 2 * sum_field_score(sub_scores)

\* industry_scores[industry_id], doubled: an occurrence of an own keyword adds
\* 1 (two halves), an occurrence of a sub-industry keyword adds 0.5 (one half)
industry_score_x2(industry_info, sub_scores, text) ==
  keyword_counts(industry_info.keywords, text, 2) + sum_field_score(sub_scores)

\* variant: with no sub-industry match, fall back to the first sub-industry
_get_top_sub_industry_defaulting(data, industry_id, sub_industry_scores) ==
  LET sub_scores == IF HasKey(sub_industry_scores, industry_id)
                    THEN Get(sub_industry_scores, industry_id).scores
                    ELSE <<>>
      vals == [j \in 1..Len(sub_scores) |-> sub_scores[j].score]
      top == max_index(vals)
      total_sub_score == sum(vals)
  IN IF sub_scores = <<>>
     THEN [id |-> "", name |-> "", confidence |-> 0]
     ELSE [id |-> sub_scores[top].id,
           name |-> Get(Get(data.industries, industry_id).sub_industries,
                        sub_scores[top].id).name,
           confidence |-> IF total_sub_score > 0
                          THEN round2(vals[top], total_sub_score) ELSE 0]

_get_top_sub_industry(data, industry_id, sub_industry_scores) ==
  LET sub_scores == IF HasKey(sub_industry_scores, industry_id)
                    THEN Get(sub_industry_scores, industry_id).scores
                    ELSE <<>>
      vals == [j \in 1..Len(sub_scores) |-> sub_scores[j].score]
  IN IF sub_scores = <<>> \/ \A j \in 1..Len(vals) : vals[j] = 0
     THEN [id |-> "", name |-> "", confidence |-> 0]
     ELSE LET top == max_index(vals)
              top_sub_id == sub_scores[top].id
              total_sub_score == sum(vals)
          IN [id |-> top_sub_id,
              name |-> Get(Get(data.industries, industry_id).sub_industries,
                           top_sub_id).name,
              confidence |-> IF total_sub_score > 0
                             THEN round2(vals[top], total_sub_score) ELSE 0]

\* the scoring loop over self.industry_data["industries"]: the dicts
\* industry_scores and sub_industry_scores, filled in iteration order
RECURSIVE score_industries(_, _)
score_industries(industries, text) ==
  IF industries = <<>>
  THEN [industry_scores |-> <<>>, sub_industry_scores |-> <<>>]
  ELSE LET sub_scores == sub_scores_of(industries[1].sub_industries, text)
           rest == score_industries(Tail(industries), text)
       IN [industry_scores |->
             <<[id |-> industries[1].id,
                score_x2 |-> industry_score_x2(industries[1], sub_scores, text)]>>
             \o rest.industry_scores,
           sub_industry_scores |->
             <<[id |-> industries[1].id, scores |-> sub_scores]>>
             \o rest.sub_industry_scores]

\* the local variables of classify_industry after the scoring loop
classify_locals(data, business_description, additional_keywords) ==
  LET text == description_lower(business_description, additional_keywords)
      scored == score_industries(data.industries, text)
  IN [description_lower |-> text,
      industry_scores |-> scored.industry_scores,
      sub_industry_scores |-> scored.sub_industry_scores]

\* values of the dict industry_scores, in iteration order
score_values(industry_scores) ==
  [i \in 1..Len(industry_scores) |-> industry_scores[i].score_x2] \o <<>>

\* "if not any(industry_scores.values()): technology else max(...)"
top_industry_id_of(industry_scores) ==
  LET vals == score_values(industry_scores)
  IN IF \A i \in 1..Len(vals) : vals[i] = 0
     THEN "technology"
     ELSE industry_scores[max_index(vals)].id

\* variant: the share is taken of the number of industries, not of the total
top_industry_confidence_by_count(industry_scores, top_industry_id) ==
  LET vals == score_values(industry_scores)
  IN IF \A i \in 1..Len(vals) : vals[i] = 0
     THEN 0
     ELSE round2(Get(industry_scores, top_industry_id).score_x2, 2 * Len(vals))

\* top_industry_confidence, rounded as in the result record
top_industry_confidence_of(industry_scores, top_industry_id) ==
  LET vals == score_values(industry_scores)
      total_score == sum(vals)
  IN IF \A i \in 1..Len(vals) : vals[i] = 0
     THEN 0
     ELSE IF total_score > 0
          THEN round2(Get(industry_scores, top_industry_id).score_x2, total_score)
          ELSE 0

\* variant: the outer comprehension without its "if score > 0"
all_matches_unfiltered(data, industry_scores, sub_industry_scores) ==
  [i \in 1..Len(industry_scores) |->
     [id |-> industry_scores[i].id,
      name |-> Get(data.industries, industry_scores[i].id).name,
      score_x2 |-> industry_scores[i].score_x2,
      sub_industries |->
        LET sub_scores == Get(sub_industry_scores, industry_scores[i].id).scores
            subs == Get(data.industries, industry_scores[i].id).sub_industries
        IN SelectSeq(
             [j \in 1..Len(sub_scores) |->
                [id |-> sub_scores[j].id,
                 name |-> Get(subs, sub_scores[j].id).name,
                 score |-> sub_scores[j].score]],
             LAMBDA e : e.score > 0)]] \o <<>>

\* the dict comprehension building "all_matches"
all_matches_of(data, industry_scores, sub_industry_scores) ==
  SelectSeq(
    [i \in 1..Len(industry_scores) |->
       [id |-> industry_scores[i].id,
        name |-> Get(data.industries, industry_scores[i].id).name,
        score_x2 |-> industry_scores[i].score_x2,
        sub_industries |->
          LET sub_scores == Get(sub_industry_scores, industry_scores[i].id).scores
              subs == Get(data.industries, industry_scores[i].id).sub_industries
          IN SelectSeq(
               [j \in 1..Len(sub_scores) |->
                  [id |-> sub_scores[j].id,
                   name |-> Get(subs, sub_scores[j].id).name,
                   score |-> sub_scores[j].score]],
               LAMBDA e : e.score > 0)]],
    LAMBDA e : e.score_x2 > 0)

classify_industry(data, l) ==
  LET top_industry_id == top_industry_id_of(l.industry_scores)
  IN IF ~HasKey(data.industries, top_industry_id)
     THEN [status |-> "KeyError"]
     ELSE
     [status |-> "ok",
      primary_industry |->
        [id |-> top_industry_id,
         name |-> Get(data.industries, top_industry_id).name,
         confidence |->
           top_industry_confidence_of(l.industry_scores, top_industry_id)],
      sub_industry |->
        _get_top_sub_industry(data, top_industry_id, l.sub_industry_scores),
      all_matches |->
        all_matches_of(data, l.industry_scores, l.sub_industry_scores)]

----------------------------------------------------------------------------
(* BusinessSizeAnalyzer.analyze_business_size *)

\* variant: a value equal to the lower bound of a range is not in the range
RECURSIVE _categorize_metric_strict(_, _)
_categorize_metric_strict(value, thresholds) ==
  IF thresholds = <<>> THEN "medium"
  ELSE LET min_val == thresholds[1].min
           max_val == thresholds[1].max
           hit == IF ~IsNone(min_val) /\ ~IsNone(max_val)
                  THEN Val(min_val) < value /\ value <= Val(max_val)
                  ELSE IF ~IsNone(min_val) /\ IsNone(max_val)
                       THEN value > Val(min_val)
                       ELSE IF IsNone(min_val) /\ ~IsNone(max_val)
                            THEN value <= Val(max_val)
                            ELSE FALSE
       IN IF hit THEN thresholds[1].id
          ELSE _categorize_metric_strict(value, Tail(thresholds))

\* "for size, range_info in thresholds.items(): ... return size", else "medium"
RECURSIVE _categorize_metric(_, _)
_categorize_metric(value, thresholds) ==
  IF thresholds = <<>> THEN "medium"
  ELSE LET min_val == thresholds[1].min
           max_val == thresholds[1].max
           hit == IF ~IsNone(min_val) /\ ~IsNone(max_val)
                  THEN Val(min_val) <= value /\ value <= Val(max_val)
                  ELSE IF ~IsNone(min_val) /\ IsNone(max_val)
                       THEN value >= Val(min_val)
                       ELSE IF IsNone(min_val) /\ ~IsNone(max_val)
                            THEN value <= Val(max_val)
                            ELSE FALSE
       IN IF hit THEN thresholds[1].id
          ELSE _categorize_metric(value, Tail(thresholds))

\* d[key] = entry on an insertion-ordered dict
dict_set(d, entry) ==
  IF HasKey(d, entry.id)
  THEN [i \in 1..Len(d) |-> IF d[i].id = entry.id THEN entry ELSE d[i]] \o <<>>
  ELSE Append(d, entry)

\* the thresholds the call works with
active_thresholds(data, industry) ==
  LET industry_lower == Str(lower(industry))
  IN IF HasKey(data.industry_specific_thresholds, industry_lower)
     THEN Get(data.industry_specific_thresholds, industry_lower).thresholds
     ELSE << Get(data.general_thresholds, "employees"),
             Get(data.general_thresholds, "revenue") >>

\* one "if metric_size: size_categories.append(...); confidence_scores[...] = ..."
record_metric(acc, thresholds, metric_name, value, weight_x10) ==
  LET metric_size == _categorize_metric(value, Get(thresholds, metric_name).ranges)
  IN IF metric_size # ""
     THEN [size_categories |-> Append(acc.size_categories, metric_size),
           confidence_scores |->
             dict_set(acc.confidence_scores,
                      [id |-> metric_name, size |-> metric_size,
                       weight_x10 |-> weight_x10])]
     ELSE acc

\* variant: an additional metric weighs 0.5, more than employees or revenue
RECURSIVE record_additional_heavy(_, _, _)
record_additional_heavy(acc, thresholds, items) ==
  IF items = <<>> THEN acc
  ELSE record_additional_heavy(
         IF HasKey(thresholds, items[1].name)
         THEN record_metric(acc, thresholds, items[1].name, items[1].value, 5)
         ELSE acc,
         thresholds, Tail(items))

\* "for metric_name, value in additional_metrics.items(): ..."
RECURSIVE record_additional(_, _, _)
record_additional(acc, thresholds, items) ==
  IF items = <<>> THEN acc
  ELSE record_additional(
         IF HasKey(thresholds, items[1].name)
         THEN record_metric(acc, thresholds, items[1].name, items[1].value, 2)
         ELSE acc,
         thresholds, Tail(items))

\* "for size in size_categories: size_counts[size] = size_counts.get(size, 0) + 1"
RECURSIVE count_sizes(_, _)
count_sizes(size_counts, size_categories) ==
  IF size_categories = <<>> THEN size_counts
  ELSE LET size == size_categories[1]
           old == IF HasKey(size_counts, size) THEN Get(size_counts, size).count
                  ELSE 0
       IN count_sizes(dict_set(size_counts, [id |-> size, count |-> old + 1]),
                      Tail(size_categories))

\* "for metric, info in confidence_scores.items(): if info["size"] ==
\* final_size: weighted_confidence += info["weight"]; total_weight += ..."
RECURSIVE sum_weights(_, _)
sum_weights(confidence_scores, final_size) ==
  IF confidence_scores = <<>>
  THEN [weighted_confidence |-> 0, total_weight |-> 0]
  ELSE LET rest == sum_weights(Tail(confidence_scores), final_size)
           info == confidence_scores[1]
       IN [weighted_confidence |->
             (IF info.size = final_size THEN info.weight_x10 ELSE 0)
             + rest.weighted_confidence,
           total_weight |-> info.weight_x10 + rest.total_weight]

\* variant: the first vote decides
final_size_of_first_vote(size_categories) == size_categories[1]

\* final_size = max(size_counts, key=size_counts.get)
final_size_of(size_categories) ==
  LET size_counts == count_sizes(<<>>, size_categories)
  IN size_counts[max_index([i \in 1..Len(size_counts) |->
                              size_counts[i].count] \o <<>>)].id

\* variant: total_weight accumulated in an else branch, so it leaves out the
\* agreeing weights
final_confidence_of_else_total(confidence_scores, final_size) ==
  IF Len(confidence_scores) > 0
  THEN LET w == sum_weights(confidence_scores, final_size)
       IN IF w.total_weight - w.weighted_confidence > 0
          THEN round2(w.weighted_confidence,
                      w.total_weight - w.weighted_confidence)
          ELSE 0
  ELSE 0

\* final_confidence, rounded as in the result record
final_confidence_of(confidence_scores, final_size) ==
  IF Len(confidence_scores) > 0
  THEN LET w == sum_weights(confidence_scores, final_size)
       IN IF w.total_weight > 0
          THEN round2(w.weighted_confidence, w.total_weight)
          ELSE 0
  ELSE 0

\* the local variables of analyze_business_size when the result is compiled;
\* the name "value" is bound only by the loop over additional_metrics
analyze_locals(data, industry, employees_count, annual_revenue, additional_metrics) ==
  LET thresholds == active_thresholds(data, industry)
      a0 == [size_categories |-> <<>>, confidence_scores |-> <<>>]
      a1 == IF ~IsNone(employees_count) /\ HasKey(thresholds, "employees")
            THEN record_metric(a0, thresholds, "employees",
                               Val(employees_count), 4)
            ELSE a0
      a2 == IF ~IsNone(annual_revenue) /\ HasKey(thresholds, "revenue")
            THEN record_metric(a1, thresholds, "revenue", Val(annual_revenue), 4)
            ELSE a1
      looped == ~IsNone(additional_metrics) /\ Val(additional_metrics) # <<>>
      a3 == IF looped
            THEN record_additional(a2, thresholds, Val(additional_metrics))
            ELSE a2
      final_size == IF a3.size_categories = <<>> THEN "medium"
                    ELSE final_size_of(a3.size_categories)
  IN [size_categories |-> a3.size_categories,
      confidence_scores |-> a3.confidence_scores,
      value |-> IF looped
                THEN Some(Val(additional_metrics)[Len(Val(additional_metrics))].value)
                ELSE None,
      final_size |-> final_size,
      final_confidence |->
        IF a3.size_categories = <<>> THEN 0
        ELSE final_confidence_of(a3.confidence_scores, final_size)]

\* the dict comprehension building "metrics_analysis": it reads the local
\* name "value" once per entry of confidence_scores
metrics_analysis_of(confidence_scores, value) ==
  [i \in 1..Len(confidence_scores) |->
     [id |-> confidence_scores[i].id,
      value |-> Val(value),
      category |-> confidence_scores[i].size,
      weight_x10 |-> confidence_scores[i].weight_x10]] \o <<>>

analyze_business_size(data, l) ==
  IF ~HasKey(data.size_characteristics, "medium")
  THEN [status |-> "KeyError"]
  ELSE IF l.confidence_scores # <<>> /\ IsNone(l.value)
  THEN [status |-> "NameError"]
  ELSE
    LET size_characteristics ==
          IF HasKey(data.size_characteristics, l.final_size)
          THEN Get(data.size_characteristics, l.final_size)
          ELSE Get(data.size_characteristics, "medium")
    IN [status |-> "ok",
        size_category |-> l.final_size,
        confidence |-> l.final_confidence,
        description |-> size_characteristics.description,
        challenges |-> size_characteristics.challenges,
        opportunities |-> size_characteristics.opportunities,
        metrics_analysis |-> metrics_analysis_of(l.confidence_scores, l.value)]

----------------------------------------------------------------------------
(* RoleRecognizer.recognize_role *)

\* variant: every occurrence weighs 1, whatever the length of the keyword
RECURSIVE _calculate_role_score_flat(_, _)
_calculate_role_score_flat(text, keywords) ==
  IF keywords = <<>> THEN 0
  ELSE findall_len(lower(keywords[1]), text) * 20
       + _calculate_role_score_flat(text, Tail(keywords))

\* score, times 20: an occurrence of a keyword weighs 0.5 + len(keyword) / 20
RECURSIVE _calculate_role_score(_, _)
_calculate_role_score(text, keywords) ==
  IF keywords = <<>> THEN 0
  ELSE LET keyword == keywords[1]
           count == findall_len(lower(keyword), text)
       IN (IF count > 0 THEN count * (10 + Len(keyword)) ELSE 0)
          + _calculate_role_score(text, Tail(keywords))

\* "for role_id, role_info in roles.items(): score = ...; if score > 0:
\* scores[role_id] = score"
RECURSIVE score_roles(_, _)
score_roles(roles, text) ==
  IF roles = <<>> THEN <<>>
  ELSE LET score == _calculate_role_score(text, roles[1].keywords)
       IN (IF score > 0 THEN <<[id |-> roles[1].id, score_x20 |-> score]>>
           ELSE <<>>)
          \o score_roles(Tail(roles), text)

\* variant: the winning score is counted once more in the total, so a sole
\* match gets confidence 50
_get_highest_scoring_role_recounting(role_scores, roles, default_role) ==
  IF role_scores = <<>>
  THEN IF ~IsNone(default_role) /\ Val(default_role) # ""
          /\ HasKey(roles, Val(default_role))
       THEN [id |-> Val(default_role),
             name |-> Get(roles, Val(default_role)).name,
             description |-> Get(roles, Val(default_role)).description,
             confidence |-> 0]
       ELSE [id |-> "", name |-> "", description |-> "", confidence |-> 0]
  ELSE LET vals == [i \in 1..Len(role_scores) |-> role_scores[i].score_x20] \o <<>>
           top == max_index(vals)
           top_role_id == role_scores[top].id
           total_score == sum(vals) + vals[top]
       IN [id |-> top_role_id,
           name |-> Get(roles, top_role_id).name,
           description |-> Get(roles, top_role_id).description,
           confidence |-> round2(vals[top], total_score)]

\* variant: with nothing matched the first role of the taxonomy is returned,
\* whatever default the caller names
_get_highest_scoring_role_first_listed(role_scores, roles, default_role) ==
  IF role_scores = <<>>
  THEN IF roles # <<>>
       THEN [id |-> roles[1].id,
             name |-> roles[1].name,
             description |-> roles[1].description,
             confidence |-> 0]
       ELSE [id |-> "", name |-> "", description |-> "", confidence |-> 0]
  ELSE LET vals == [i \in 1..Len(role_scores) |-> role_scores[i].score_x20] \o <<>>
           top == max_index(vals)
           top_role_id == role_scores[top].id
           total_score == sum(vals)
       IN [id |-> top_role_id,
           name |-> Get(roles, top_role_id).name,
           description |-> Get(roles, top_role_id).description,
           confidence |-> IF total_score > 0 THEN round2(vals[top], total_score)
                          ELSE 0]

_get_highest_scoring_role(role_scores, roles, default_role) ==
  IF role_scores = <<>>
  THEN IF ~IsNone(default_role) /\ Val(default_role) # ""
          /\ HasKey(roles, Val(default_role))
       THEN [id |-> Val(default_role),
             name |-> Get(roles, Val(default_role)).name,
             description |-> Get(roles, Val(default_role)).description,
             confidence |-> 0]
       ELSE [id |-> "", name |-> "", description |-> "", confidence |-> 0]
  ELSE LET vals == [i \in 1..Len(role_scores) |-> role_scores[i].score_x20] \o <<>>
           top == max_index(vals)
           top_role_id == role_scores[top].id
           total_score == sum(vals)
       IN [id |-> top_role_id,
           name |-> Get(roles, top_role_id).name,
           description |-> Get(roles, top_role_id).description,
           confidence |-> IF total_score > 0 THEN round2(vals[top], total_score)
                          ELSE 0]

\* the "name"/"score" comprehension over one dict of role scores
role_matches_of(role_scores, roles) ==
  [i \in 1..Len(role_scores) |->
     [id |-> role_scores[i].id,
      name |-> Get(roles, role_scores[i].id).name,
      score_x20 |-> role_scores[i].score_x20]] \o <<>>

\* the local variables of recognize_role after the scoring loops
recognize_locals(data, job_title, additional_info, industry) ==
  LET job_title_lower == lower(job_title)
      additional_info_lower ==
        IF ~IsNone(additional_info) /\ Val(additional_info) # <<>>
        THEN lower(Val(additional_info)) ELSE <<>>
      industry_given == ~IsNone(industry) /\ Val(industry) # <<>>
      industry_lower == IF industry_given THEN Str(lower(Val(industry))) ELSE ""
      combined_text == job_title_lower \o <<" ">> \o additional_info_lower
      has_industry_roles ==
        industry_given /\ HasKey(data.industry_specific_roles, industry_lower)
  IN [combined_text |-> combined_text,
      industry_lower |-> industry_lower,
      has_industry_roles |-> has_industry_roles,
      organizational_role_scores |->
        score_roles(data.organizational_roles, combined_text),
      functional_role_scores |->
        score_roles(data.functional_roles, combined_text),
      industry_role_scores |->
        IF has_industry_roles
        THEN score_roles(Get(data.industry_specific_roles, industry_lower).roles,
                         combined_text)
        ELSE <<>>]

recognize_role(data, l) ==
  LET primary_org_role ==
        _get_highest_scoring_role(l.organizational_role_scores,
                                  data.organizational_roles, Some("manager"))
      primary_func_role ==
        _get_highest_scoring_role(l.functional_role_scores,
                                  data.functional_roles, Some("technology"))
      with_industry == l.has_industry_roles /\ l.industry_role_scores # <<>>
      primary_industry_role ==
        IF with_industry
        THEN Some(_get_highest_scoring_role(
                    l.industry_role_scores,
                    Get(data.industry_specific_roles, l.industry_lower).roles,
                    None))
        ELSE None
      org_matches == role_matches_of(l.organizational_role_scores,
                                     data.organizational_roles)
      func_matches == role_matches_of(l.functional_role_scores,
                                      data.functional_roles)
  IN IF ~HasKey(data.communication_strategies, "manager")
     THEN [status |-> "KeyError"]
     ELSE
     [status |-> "ok",
      organizational_role |-> primary_org_role,
      functional_role |-> primary_func_role,
      industry_specific_role |-> primary_industry_role,
      communication_strategy |->
        IF HasKey(data.communication_strategies, primary_org_role.id)
        THEN Get(data.communication_strategies, primary_org_role.id)
        ELSE Get(data.communication_strategies, "manager"),
      all_matches |->
        IF with_industry
        THEN [organizational_roles |-> org_matches,
              functional_roles |-> func_matches,
              industry_specific_roles |->
                role_matches_of(
                  l.industry_role_scores,
                  Get(data.industry_specific_roles, l.industry_lower).roles)]
        ELSE [organizational_roles |-> org_matches,
              functional_roles |-> func_matches]]

----------------------------------------------------------------------------
(* Lookups by id. A returned dict is the taxonomy record itself; the empty  *)
(* dict {} is the empty function << >>.                                     *)

\* IndustryClassifier.get_industry_information
get_industry_information(data, industry_id) ==
  IF HasKey(data.industries, industry_id)
  THEN [status |-> "ok", value |-> Get(data.industries, industry_id)]
  ELSE IF HasKey(data.industries, "technology")
       THEN [status |-> "ok", value |-> Get(data.industries, "technology")]
       ELSE [status |-> "KeyError"]

\* BusinessSizeAnalyzer.get_size_information
get_size_information(data, size_category) ==
  LET size_category_lower == Str(lower(size_category))
  IN IF HasKey(data.size_characteristics, size_category_lower)
     THEN [status |-> "ok",
           value |-> Get(data.size_characteristics, size_category_lower)]
     ELSE IF HasKey(data.size_characteristics, "medium")
          THEN [status |-> "ok",
                value |-> Get(data.size_characteristics, "medium")]
          ELSE [status |-> "KeyError"]

\* RoleRecognizer.get_role_information
get_role_information(data, role_type, role_id, industry) ==
  IF role_type = "organizational" /\ HasKey(data.organizational_roles, role_id)
  THEN [status |-> "ok", value |-> Get(data.organizational_roles, role_id)]
  ELSE IF role_type = "functional" /\ HasKey(data.functional_roles, role_id)
  THEN [status |-> "ok", value |-> Get(data.functional_roles, role_id)]
  ELSE IF /\ role_type = "industry_specific"
          /\ ~IsNone(industry)
          /\ Val(industry) # ""
          /\ HasKey(data.industry_specific_roles, Val(industry))
          /\ HasKey(Get(data.industry_specific_roles, Val(industry)).roles,
                    role_id)
  THEN [status |-> "ok",
        value |-> Get(Get(data.industry_specific_roles, Val(industry)).roles,
                      role_id)]
  ELSE [status |-> "ok", value |-> <<>>]

\* RoleRecognizer.get_communication_strategy
get_communication_strategy(data, organizational_role) ==
  IF HasKey(data.communication_strategies, organizational_role)
  THEN [status |-> "ok",
        value |-> Get(data.communication_strategies, organizational_role)]
  ELSE IF HasKey(data.communication_strategies, "manager")
       THEN [status |-> "ok",
             value |-> Get(data.communication_strategies, "manager")]
       ELSE [status |-> "KeyError"]

----------------------------------------------------------------------------
(* Persistence. A taxonomy file is missing, holds text json.load rejects,   *)
(* or holds a JSON document. json.dump writes None as null and json.load    *)
(* reads null back as None; the only values of a taxonomy that can be None  *)
(* are the bounds of a range. Strings, lists and string-keyed dicts are     *)
(* written and read back as they are, in the same order.                    *)

Missing == [kind |-> "missing", doc |-> None]
Invalid == [kind |-> "invalid", doc |-> None]
Document(doc) == [kind |-> "json", doc |-> Some(doc)]

dump_bound(bound) ==
  IF IsNone(bound) THEN [type |-> "null"]
  ELSE [type |-> "number", value |-> Val(bound)]

load_bound(token) == IF token.type = "null" THEN None ELSE Some(token.value)

dump_metrics(metrics) ==
  [m \in 1..Len(metrics) |->
     [id |-> metrics[m].id,
      ranges |-> [i \in 1..Len(metrics[m].ranges) |->
                    [id |-> metrics[m].ranges[i].id,
                     min |-> dump_bound(metrics[m].ranges[i].min),
                     max |-> dump_bound(metrics[m].ranges[i].max)]] \o <<>>]]
  \o <<>>

load_metrics(metrics) ==
  [m \in 1..Len(metrics) |->
     [id |-> metrics[m].id,
      ranges |-> [i \in 1..Len(metrics[m].ranges) |->
                    [id |-> metrics[m].ranges[i].id,
                     min |-> load_bound(metrics[m].ranges[i].min),
                     max |-> load_bound(metrics[m].ranges[i].max)]] \o <<>>]]
  \o <<>>

\* json.dump(data, f) for the taxonomy of one scorer
json_dump(scorer, data) ==
  IF scorer = "size"
  THEN [category \in DOMAIN data |->
          IF category = "general_thresholds"
          THEN dump_metrics(data.general_thresholds)
          ELSE IF category = "industry_specific_thresholds"
          THEN [k \in 1..Len(data.industry_specific_thresholds) |->
                  [id |-> data.industry_specific_thresholds[k].id,
                   thresholds |->
                     dump_metrics(
                       data.industry_specific_thresholds[k].thresholds)]]
               \o <<>>
          ELSE data[category]]
  ELSE data

\* json.load(f) for the taxonomy of one scorer
json_load(scorer, doc) ==
  IF scorer = "size"
  THEN [category \in DOMAIN doc |->
          IF category = "general_thresholds"
          THEN load_metrics(doc.general_thresholds)
          ELSE IF category = "industry_specific_thresholds"
          THEN [k \in 1..Len(doc.industry_specific_thresholds) |->
                  [id |-> doc.industry_specific_thresholds[k].id,
                   thresholds |->
                     load_metrics(
                       doc.industry_specific_thresholds[k].thresholds)]]
               \o <<>>
          ELSE doc[category]]
  ELSE doc

\* variant: the built-in defaults are returned without being written
_load_data_without_saving(scorer, file, default_data) ==
  IF file.kind = "json"
  THEN [data |-> json_load(scorer, Val(file.doc)), file |-> file]
  ELSE [data |-> default_data, file |-> file]

\* _load_industry_data / _load_size_data / _load_role_data: the document of
\* the file, or on FileNotFoundError / JSONDecodeError the defaults, which
\* _create_default_*_data writes to the path before returning them
_load_data(scorer, file, default_data) ==
  IF file.kind = "json"
  THEN [data |-> json_load(scorer, Val(file.doc)), file |-> file]
  ELSE [data |-> default_data,
        file |-> Document(json_dump(scorer, default_data))]

----------------------------------------------------------------------------
(* Taxonomy updates. new_data is a partial document: a dict is a sequence  *)
(* of entries carrying their key in "id", and an entry names only the keys  *)
(* the caller supplies. A category of new_data is [id, kind, value] with    *)
(* kind "dict" or "list", the type isinstance() finds.                      *)

\* whether a list holds the item
InList(list, item) == \E i \in DOMAIN list : list[i] = item

\* dict.update(other) where the dict is a record of fields
record_update(r, other) ==
  [f \in DOMAIN r \cup DOMAIN other |->
     IF f \in DOMAIN other THEN other[f] ELSE r[f]]

\* dict.update(other) where the dict is a sequence of entries
RECURSIVE dict_update(_, _)
dict_update(d, other) ==
  IF other = <<>> THEN d
  ELSE dict_update(dict_set(d, other[1]), Tail(other))

\* "for sub_id, sub_info in value.items()": an existing sub-industry is
\* update()d with the supplied fields, a new one is stored
RECURSIVE merge_sub_industries(_, _)
merge_sub_industries(sub_industries, value) ==
  IF value = <<>> THEN sub_industries
  ELSE LET sub_info == value[1]
       IN merge_sub_industries(
            IF HasKey(sub_industries, sub_info.id)
            THEN dict_set(sub_industries,
                          record_update(Get(sub_industries, sub_info.id),
                                        sub_info))
            ELSE Append(sub_industries, sub_info),
            Tail(value))

\* "for key, value in industry_info.items()" on an existing industry
merge_industry(industry, industry_info) ==
  [key \in DOMAIN industry \cup DOMAIN industry_info |->
     IF key \notin DOMAIN industry_info THEN industry[key]
     ELSE IF key = "sub_industries" /\ key \in DOMAIN industry
          THEN merge_sub_industries(industry.sub_industries,
                                    industry_info.sub_industries)
     ELSE IF key = "keywords" /\ key \in DOMAIN industry
          THEN industry.keywords \o
               SelectSeq(industry_info.keywords,
                         LAMBDA kw : ~InList(industry.keywords, kw))
     ELSE industry_info[key]]

RECURSIVE merge_industries(_, _)
merge_industries(industries, items) ==
  IF items = <<>> THEN industries
  ELSE LET industry_info == items[1]
       IN merge_industries(
            IF HasKey(industries, industry_info.id)
            THEN dict_set(industries,
                          merge_industry(Get(industries, industry_info.id),
                                         industry_info))
            ELSE Append(industries, industry_info),
            Tail(items))

\* variant: the merged taxonomy is kept in memory and the file is left as
\* it was when the classifier was built
update_industry_data_unsaved(data, new_data) ==
  [data |-> IF HasKey(new_data, "industries")
            THEN [data EXCEPT
                    !.industries =
                      merge_industries(@, Get(new_data, "industries").value)]
            ELSE data,
   file |-> Document(json_dump("industry", default_industry_data))]

\* IndustryClassifier.update_industry_data: the merged taxonomy and the file
\* it is written to
update_industry_data(data, new_data) ==
  LET merged ==
        IF HasKey(new_data, "industries")
        THEN [data EXCEPT
                !.industries =
                  merge_industries(@, Get(new_data, "industries").value)]
        ELSE data
  IN [data |-> merged, file |-> Document(json_dump("industry", merged))]

\* self.data[category][key].update(value): the entry of a thresholds or an
\* industry-roles category holds one dict, any other entry is a dict of fields
entry_update(category, entry, value) ==
  IF category = "general_thresholds"
  THEN [entry EXCEPT !.ranges = dict_update(@, value.ranges)]
  ELSE IF category = "industry_specific_thresholds"
  THEN [entry EXCEPT !.thresholds = dict_update(@, value.thresholds)]
  ELSE IF category = "industry_specific_roles"
  THEN [entry EXCEPT !.roles = dict_update(@, value.roles)]
  ELSE record_update(entry, value)

\* "for key, value in category_data.items()"
RECURSIVE merge_entries(_, _, _)
merge_entries(category, current, category_data) ==
  IF category_data = <<>> THEN current
  ELSE LET value == category_data[1]
       IN merge_entries(
            category,
            IF HasKey(current, value.id)
            THEN dict_set(current,
                          entry_update(category, Get(current, value.id),
                                       value))
            ELSE Append(current, value),
            Tail(category_data))

\* "for category, category_data in new_data.items()"
RECURSIVE merge_categories(_, _)
merge_categories(data, new_data) ==
  IF new_data = <<>> THEN data
  ELSE LET category == new_data[1].id
           category_data == new_data[1].value
           merged ==
             IF category \in DOMAIN data
             THEN IF new_data[1].kind = "dict"
                  THEN merge_entries(category, data[category], category_data)
                  ELSE IF new_data[1].kind = "list"
                  THEN data[category] \o category_data
                  ELSE data[category]
             ELSE category_data
       IN merge_categories(
            [c \in DOMAIN data \cup {category} |->
               IF c = category THEN merged ELSE data[c]],
            Tail(new_data))

\* BusinessSizeAnalyzer.update_size_data
update_size_data(data, new_data) ==
  LET merged == merge_categories(data, new_data)
  IN [data |-> merged, file |-> Document(json_dump("size", merged))]

\* RoleRecognizer.update_role_data
update_role_data(data, new_data) ==
  LET merged == merge_categories(data, new_data)
  IN [data |-> merged, file |-> Document(json_dump("role", merged))]

----------------------------------------------------------------------------
(* BusinessContextAdapter.generate_adaptation_strategy. The tables are the   *)
(* dict and list literals of the _generate_* methods, under their names; a   *)
(* dict of lists is a sequence of [id, items], the returned lists of         *)
(* _generate_implementation_approach and the dicts passed to update() in     *)
(* _generate_interface_recommendations are named after their branch.         *)

small_approach ==
  <<
    "Simplified deployment with minimal IT requirements",
    "Phased implementation with quick initial value delivery",
    "Self-service configuration options",
    "Minimal customization to reduce complexity",
    "Cloud-based deployment to minimize infrastructure needs"
  >>

medium_approach ==
  <<
    "Balanced approach with moderate customization",
    "Departmental rollout strategy",
    "Integration with core existing systems",
    "Hybrid configuration (self-service with support options)",
    "Scalable implementation that grows with the business"
  >>

enterprise_approach ==
  <<
    "Comprehensive implementation with extensive customization",
    "Enterprise-wide deployment strategy",
    "Deep integration with existing technology ecosystem",
    "Professional services-led implementation",
    "Multi-phase rollout with detailed change management"
  >>

base_capabilities ==
  <<
    "Natural language interaction",
    "Business context awareness",
    "Self-marketing capabilities",
    "Integration with existing systems"
  >>

industry_capabilities ==
  <<
    [id |-> "retail",
     items |-> <<
       "Customer behavior analysis",
       "Inventory optimization",
       "Pricing strategy recommendations",
       "Omnichannel experience coordination"
     >>],
    [id |-> "healthcare",
     items |-> <<
       "HIPAA-compliant data handling",
       "Patient engagement optimization",
       "Clinical workflow integration",
       "Healthcare regulation monitoring"
     >>],
    [id |-> "finance",
     items |-> <<
       "Financial data analysis",
       "Regulatory compliance monitoring",
       "Risk assessment",
       "Investment performance tracking"
     >>],
    [id |-> "manufacturing",
     items |-> <<
       "Supply chain optimization",
       "Production efficiency analysis",
       "Quality control monitoring",
       "Equipment maintenance prediction"
     >>],
    [id |-> "technology",
     items |-> <<
       "Development workflow integration",
       "Technical documentation assistance",
       "Code quality analysis",
       "Technology trend monitoring"
     >>]
  >>

size_capabilities ==
  <<
    [id |-> "small",
     items |-> <<
       "Cost-effective resource allocation",
       "Multi-function capabilities for limited staff",
       "Simplified reporting and analytics",
       "Quick-start templates and workflows"
     >>],
    [id |-> "medium",
     items |-> <<
       "Department coordination tools",
       "Scalable workflow management",
       "Growth planning and forecasting",
       "Team collaboration features"
     >>],
    [id |-> "enterprise",
     items |-> <<
       "Enterprise-wide data integration",
       "Advanced analytics and reporting",
       "Multi-location coordination",
       "Governance and compliance tools"
     >>]
  >>

role_capabilities ==
  <<
    [id |-> "executive",
     items |-> <<
       "Strategic decision support",
       "Executive dashboard",
       "Competitive intelligence",
       "Performance overview"
     >>],
    [id |-> "manager",
     items |-> <<
       "Team performance tracking",
       "Resource allocation tools",
       "Project management features",
       "Operational efficiency analysis"
     >>],
    [id |-> "specialist",
     items |-> <<
       "Detailed technical tools",
       "Domain-specific analysis",
       "Process automation",
       "Knowledge management"
     >>]
  >>

interface_recommendations ==
  [layout |-> "Standard dashboard layout with customizable widgets",
   data_visualization |-> "Balanced mix of charts, tables, and summary metrics",
   navigation |-> "Context-aware navigation with recent items",
   interaction_mode |-> "Conversational with option for structured inputs",
   notification_style |-> "Balanced notification frequency and detail"]

executive_interface ==
  [layout |-> "Executive dashboard with high-level KPIs and strategic insights",
   data_visualization |-> "Visual-focused with emphasis on trends and comparisons",
   navigation |-> "Simplified navigation with focus on strategic areas",
   interaction_mode |-> "Concise interactions with option for detailed exploration",
   notification_style |-> "High-priority notifications only with executive summaries"]

specialist_interface ==
  [layout |-> "Detailed technical dashboard with comprehensive data access",
   data_visualization |-> "Detailed data tables with technical visualizations",
   navigation |-> "Deep navigation structure with technical categorization",
   interaction_mode |-> "Technical query capability with specialized terminology",
   notification_style |-> "Detailed notifications with technical specifics"]

technology_interface ==
  [technical_features |-> "Code integration, API access, and technical documentation",
   terminology |-> "Technical terminology and industry-standard nomenclature",
   tools_integration |-> "Development environment and technical tool integrations"]

marketing_interface ==
  [technical_features |-> "Campaign analytics, content management, and audience insights",
   terminology |-> "Marketing terminology and metrics",
   tools_integration |-> "Marketing platform and analytics tool integrations"]

sales_interface ==
  [technical_features |-> "Pipeline management, customer tracking, and deal analytics",
   terminology |-> "Sales terminology and metrics",
   tools_integration |-> "CRM and sales tool integrations"]

finance_interface ==
  [technical_features |-> "Financial reporting, budget tracking, and forecast modeling",
   terminology |-> "Financial terminology and metrics",
   tools_integration |-> "Accounting system and financial tool integrations"]

other_interface ==
  [technical_features |-> "Role-specific tools and analytics",
   terminology |-> "Industry-standard terminology",
   tools_integration |-> "Common business tool integrations"]

base_priorities ==
  <<
    "Email and communication systems",
    "Calendar and scheduling tools",
    "Document management systems"
  >>

industry_priorities ==
  <<
    [id |-> "retail",
     items |-> <<
       "Point of sale (POS) systems",
       "Inventory management systems",
       "E-commerce platforms",
       "Customer relationship management (CRM)"
     >>],
    [id |-> "healthcare",
     items |-> <<
       "Electronic health record (EHR) systems",
       "Practice management software",
       "Patient portal systems",
       "Medical billing systems"
     >>],
    [id |-> "finance",
     items |-> <<
       "Financial management systems",
       "Trading platforms",
       "Risk management tools",
       "Compliance monitoring systems"
     >>],
    [id |-> "manufacturing",
     items |-> <<
       "Enterprise resource planning (ERP) systems",
       "Manufacturing execution systems (MES)",
       "Supply chain management tools",
       "Quality management systems"
     >>],
    [id |-> "technology",
     items |-> <<
       "Development environments",
       "Project management tools",
       "Version control systems",
       "Continuous integration/deployment tools"
     >>]
  >>

size_priorities ==
  <<
    [id |-> "small",
     items |-> <<
       "All-in-one business management tools",
       "Cloud-based productivity suites",
       "Simple accounting systems"
     >>],
    [id |-> "medium",
     items |-> <<
       "Department-specific software systems",
       "Business intelligence tools",
       "Team collaboration platforms"
     >>],
    [id |-> "enterprise",
     items |-> <<
       "Enterprise resource planning (ERP) systems",
       "Data warehouse and analytics platforms",
       "Identity and access management systems",
       "Enterprise content management systems"
     >>]
  >>

industry_value_props ==
  <<
    [id |-> "retail",
     items |-> <<
       "Increased customer engagement and loyalty",
       "Optimized inventory management and reduced costs",
       "Enhanced omnichannel customer experience",
       "Data-driven merchandising and pricing decisions"
     >>],
    [id |-> "healthcare",
     items |-> <<
       "Improved patient outcomes and satisfaction",
       "Enhanced operational efficiency and reduced costs",
       "Streamlined compliance with healthcare regulations",
       "Better coordination of care across providers"
     >>],
    [id |-> "finance",
     items |-> <<
       "Enhanced risk management and compliance",
       "Improved customer financial insights",
       "Streamlined financial operations and reporting",
       "Data-driven investment and lending decisions"
     >>],
    [id |-> "manufacturing",
     items |-> <<
       "Optimized production efficiency and reduced waste",
       "Enhanced supply chain visibility and resilience",
       "Improved quality control and reduced defects",
       "Predictive maintenance to minimize downtime"
     >>],
    [id |-> "technology",
     items |-> <<
       "Accelerated development cycles and innovation",
       "Improved code quality and reduced technical debt",
       "Enhanced collaboration across development teams",
       "Better alignment of technology with business objectives"
     >>]
  >>

size_value_props ==
  <<
    [id |-> "small",
     items |-> <<
       "Cost-effective operations with minimal overhead",
       "Ability to compete with larger businesses",
       "Maximized productivity with limited resources",
       "Simplified management of multiple business functions"
     >>],
    [id |-> "medium",
     items |-> <<
       "Scalable growth without proportional cost increases",
       "Improved coordination across departments",
       "Enhanced ability to adapt to market changes",
       "Better visibility into business operations"
     >>],
    [id |-> "enterprise",
     items |-> <<
       "Enterprise-wide consistency and standardization",
       "Improved governance and risk management",
       "Enhanced coordination across locations and divisions",
       "Data-driven strategic decision making"
     >>]
  >>

role_value_props ==
  <<
    [id |-> "executive",
     items |-> <<
       "Strategic competitive advantage",
       "Improved organizational performance and growth",
       "Enhanced decision-making with strategic insights",
       "Reduced organizational risk and improved governance"
     >>],
    [id |-> "manager",
     items |-> <<
       "Improved team productivity and performance",
       "Better resource allocation and utilization",
       "Enhanced visibility into operations",
       "Streamlined processes and reduced manual work"
     >>],
    [id |-> "specialist",
     items |-> <<
       "Automation of routine tasks",
       "Enhanced technical capabilities and tools",
       "Improved quality and consistency of work",
       "Access to specialized knowledge and best practices"
     >>]
  >>

role_roi ==
  <<
    [id |-> "executive",
     items |-> <<
       "Long-term strategic value and competitive positioning",
       "Overall business growth and market share impact",
       "Organizational efficiency and cost reduction",
       "Risk mitigation and compliance benefits"
     >>],
    [id |-> "manager",
     items |-> <<
       "Team productivity improvements",
       "Process efficiency and time savings",
       "Resource utilization optimization",
       "Quality improvements and error reduction"
     >>],
    [id |-> "specialist",
     items |-> <<
       "Task automation and time savings",
       "Quality improvements and error reduction",
       "Technical capability enhancements",
       "Professional development and knowledge access"
     >>]
  >>

size_roi ==
  <<
    [id |-> "small",
     items |-> <<
       "Quick time-to-value with minimal investment",
       "Cost-effective operations with limited resources",
       "Competitive capabilities without enterprise budgets",
       "Flexibility to adapt to changing business needs"
     >>],
    [id |-> "medium",
     items |-> <<
       "Scalable growth without proportional cost increases",
       "Improved coordination and reduced operational friction",
       "Enhanced capabilities to compete with larger businesses",
       "Balanced investment with measurable returns"
     >>],
    [id |-> "enterprise",
     items |-> <<
       "Enterprise-wide efficiency and standardization",
       "Significant cost reduction at scale",
       "Strategic advantage through advanced capabilities",
       "Risk reduction and compliance benefits"
     >>]
  >>

trust_approach ==
  <<
    [id |-> "security_emphasis",
     items |-> <<
       "Data encryption and protection",
       "Access controls and authentication",
       "Regular security audits and updates"
     >>],
    [id |-> "privacy_emphasis",
     items |-> <<
       "Data minimization principles",
       "User control over data",
       "Transparent data usage policies"
     >>],
    [id |-> "reliability_emphasis",
     items |-> <<
       "System uptime and availability",
       "Performance consistency",
       "Quality assurance processes"
     >>]
  >>

industry_trust ==
  <<
    [id |-> "healthcare",
     elements |-> <<
       [id |-> "security_emphasis",
        items |-> <<
          "HIPAA-compliant security measures",
          "Protected health information (PHI) safeguards",
          "Healthcare-specific access controls"
        >>],
       [id |-> "privacy_emphasis",
        items |-> <<
          "Patient data protection and consent management",
          "Healthcare privacy regulation compliance",
          "Strict data sharing controls"
        >>],
       [id |-> "compliance_emphasis",
        items |-> <<
          "Healthcare regulatory compliance",
          "Audit trail for all PHI access",
          "Regular compliance verification"
        >>]
     >>],
    [id |-> "finance",
     elements |-> <<
       [id |-> "security_emphasis",
        items |-> <<
          "Financial-grade security protocols",
          "Fraud detection and prevention",
          "Multi-factor authentication"
        >>],
       [id |-> "privacy_emphasis",
        items |-> <<
          "Financial data protection",
          "Strict data access controls",
          "Transparent data usage policies"
        >>],
       [id |-> "compliance_emphasis",
        items |-> <<
          "Financial regulatory compliance",
          "Audit trails for all transactions",
          "Regular compliance verification"
        >>]
     >>],
    [id |-> "retail",
     elements |-> <<
       [id |-> "security_emphasis",
        items |-> <<
          "Payment card industry (PCI) compliance",
          "Customer data protection",
          "Secure e-commerce transactions"
        >>],
       [id |-> "privacy_emphasis",
        items |-> <<
          "Customer privacy protection",
          "Transparent data collection policies",
          "Opt-in consent for marketing"
        >>],
       [id |-> "customer_trust_emphasis",
        items |-> <<
          "Consistent customer experience",
          "Transparent pricing and policies",
          "Reliable service delivery"
        >>]
     >>]
  >>

role_trust ==
  <<
    [id |-> "executive",
     elements |-> <<
       [id |-> "strategic_emphasis",
        items |-> <<
          "Long-term partnership approach",
          "Strategic alignment with business goals",
          "Executive-level support and accountability"
        >>],
       [id |-> "governance_emphasis",
        items |-> <<
          "Clear governance and oversight",
          "Risk management framework",
          "Executive reporting and visibility"
        >>]
     >>],
    [id |-> "specialist",
     elements |-> <<
       [id |-> "technical_emphasis",
        items |-> <<
          "Technical reliability and performance",
          "Integration with existing tools",
          "Technical support and expertise"
        >>],
       [id |-> "transparency_emphasis",
        items |-> <<
          "Technical documentation and specifications",
          "Clear explanation of capabilities and limitations",
          "Transparent technical processes"
        >>]
     >>]
  >>

\* the first n items of a list: list[:n]
Take(list, n) == SubSeq(list, 1, IF Len(list) < n THEN Len(list) ELSE n)

\* "table[key] if key in table else table[default]"
entry_or_default(table, key, default) ==
  IF HasKey(table, key) THEN Get(table, key).items
  ELSE Get(table, default).items

_generate_implementation_approach(business_size) ==
  IF business_size = "small" THEN small_approach
  ELSE IF business_size = "medium" THEN medium_approach
  ELSE enterprise_approach

_generate_recommended_capabilities(industry, business_size, role) ==
  base_capabilities
  \o entry_or_default(industry_capabilities, industry, "technology")
  \o entry_or_default(size_capabilities, business_size, "medium")
  \o entry_or_default(role_capabilities, role, "manager")

_generate_interface_recommendations(org_role, func_role) ==
  LET by_org_role ==
        IF org_role = "executive"
        THEN record_update(interface_recommendations, executive_interface)
        ELSE IF org_role = "specialist"
        THEN record_update(interface_recommendations, specialist_interface)
        ELSE interface_recommendations
  IN record_update(
       by_org_role,
       IF func_role = "technology" THEN technology_interface
       ELSE IF func_role = "marketing" THEN marketing_interface
       ELSE IF func_role = "sales" THEN sales_interface
       ELSE IF func_role = "finance" THEN finance_interface
       ELSE other_interface)

_generate_integration_priorities(industry, business_size) ==
  base_priorities
  \o entry_or_default(industry_priorities, industry, "technology")
  \o entry_or_default(size_priorities, business_size, "medium")

_generate_value_proposition_focus(industry, business_size, role) ==
  Take(entry_or_default(industry_value_props, industry, "technology"), 2)
  \o Take(entry_or_default(size_value_props, business_size, "medium"), 2)
  \o Take(entry_or_default(role_value_props, role, "manager"), 2)

_generate_roi_emphasis(role, business_size) ==
  Take(entry_or_default(role_roi, role, "manager"), 3)
  \o Take(entry_or_default(size_roi, business_size, "medium"), 3)

_generate_trust_building_approach(industry, role) ==
  dict_update(
    dict_update(trust_approach,
                IF HasKey(industry_trust, industry)
                THEN Get(industry_trust, industry).elements ELSE <<>>),
    IF HasKey(role_trust, role) THEN Get(role_trust, role).elements
    ELSE <<>>)

\* d.get(key, []) on a record
get_or_empty(d, key) == IF key \in DOMAIN d THEN d[key] ELSE <<>>

\* BusinessContextAdapter.generate_adaptation_strategy
generate_adaptation_strategy(industries, sizes, roles, business_context) ==
  LET industry_id == business_context.industry.id
      industry_name == business_context.industry.name
      sub_industry == business_context.industry.sub_industry
      business_size == Str(business_context.business_size.category)
      org_role == business_context.user_role.organizational.id
      func_role == business_context.user_role.functional.id
      industry_info == get_industry_information(industries, industry_id)
      size_info ==
        get_size_information(sizes, business_context.business_size.category)
      communication_strategy == get_communication_strategy(roles, org_role)
  IN IF \/ industry_info.status # "ok"
        \/ size_info.status # "ok"
        \/ communication_strategy.status # "ok"
     THEN [status |-> "KeyError"]
     ELSE
     [status |-> "ok",
      content_adaptation |->
        [industry_focus |->
           [primary_topics |->
              Take(get_or_empty(industry_info.value, "keywords"), 5),
            sub_industry_focus |->
              IF IsNone(sub_industry) THEN None
              ELSE Some(Val(sub_industry).name),
            industry_challenges |-> <<
              "Addressing " \o industry_name
                \o " industry regulations and compliance requirements",
              "Managing " \o industry_name
                \o "-specific customer expectations",
              "Optimizing " \o industry_name
                \o " business processes and workflows",
              "Leveraging technology effectively in the " \o industry_name
                \o " sector",
              "Staying competitive in the evolving " \o industry_name
                \o " landscape" >>],
         business_size_adaptation |->
           [resource_considerations |->
              get_or_empty(size_info.value, "challenges"),
            opportunity_focus |->
              get_or_empty(size_info.value, "opportunities"),
            implementation_approach |->
              _generate_implementation_approach(business_size)],
         role_based_communication |->
           [content_focus |->
              get_or_empty(communication_strategy.value, "content_focus"),
            presentation_style |->
              get_or_empty(communication_strategy.value,
                           "presentation_style"),
            language_patterns |->
              get_or_empty(communication_strategy.value,
                           "language_patterns")]],
      feature_adaptation |->
        [recommended_capabilities |->
           _generate_recommended_capabilities(industry_id, business_size,
                                              org_role),
         interface_customization |->
           _generate_interface_recommendations(org_role, func_role),
         integration_priorities |->
           _generate_integration_priorities(industry_id, business_size)],
      engagement_strategy |->
        [value_proposition_focus |->
           _generate_value_proposition_focus(industry_id, business_size,
                                             org_role),
         roi_emphasis |-> _generate_roi_emphasis(org_role, business_size),
         trust_building_approach |->
           _generate_trust_building_approach(industry_id, org_role)]]

----------------------------------------------------------------------------
(* ValuePropositionGenerator (self_marketing/value_proposition_generator.py). *)
(* A template is the sequence of its pieces: literal text and replacement    *)
(* fields. A proposition is the string format() builds.                      *)

default_knowledge_base ==
  [industries |-> <<
    [id |-> "retail",
     pain_points |->
       <<"inventory management", "customer engagement", "sales forecasting">>,
     benefits |->
       <<"increased sales", "improved customer retention", "optimized inventory">>,
     metrics |->
       <<"sales growth", "customer satisfaction", "inventory turnover">>],
    [id |-> "healthcare",
     pain_points |->
       <<"patient scheduling", "record management", "regulatory compliance">>,
     benefits |->
       <<"improved patient care", "reduced administrative burden", "compliance assurance">>,
     metrics |->
       <<"patient satisfaction", "administrative time saved", "compliance rate">>],
    [id |-> "finance",
     pain_points |->
       <<"risk assessment", "fraud detection", "customer service">>,
     benefits |->
       <<"reduced risk", "fraud prevention", "enhanced customer experience">>,
     metrics |->
       <<"risk reduction percentage", "fraud detection rate", "customer satisfaction">>],
    [id |-> "manufacturing",
     pain_points |->
       <<"production efficiency", "quality control", "supply chain management">>,
     benefits |->
       <<"increased productivity", "improved quality", "optimized supply chain">>,
     metrics |->
       <<"production rate", "defect reduction", "supply chain cost reduction">>],
    [id |-> "technology",
     pain_points |->
       <<"development speed", "customer support", "product innovation">>,
     benefits |->
       <<"faster development", "improved support", "enhanced innovation">>,
     metrics |->
       <<"development time reduction", "support resolution time", "innovation rate">>] >>,
   business_sizes |-> <<
    [id |-> "small",
     pain_points |->
       <<"limited resources", "cost management", "growth challenges">>,
     benefits |->
       <<"cost efficiency", "resource optimization", "scalable growth">>,
     metrics |->
       <<"cost reduction", "resource utilization", "growth rate">>],
    [id |-> "medium",
     pain_points |->
       <<"scaling operations", "process standardization", "talent management">>,
     benefits |->
       <<"operational efficiency", "standardized processes", "improved talent utilization">>,
     metrics |->
       <<"operational cost reduction", "process efficiency", "employee productivity">>],
    [id |-> "enterprise",
     pain_points |->
       <<"organizational complexity", "global coordination", "innovation at scale">>,
     benefits |->
       <<"simplified complexity", "enhanced coordination", "scalable innovation">>,
     metrics |->
       <<"organizational efficiency", "coordination effectiveness", "innovation impact">>] >>,
   roles |-> <<
    [id |-> "executive",
     pain_points |->
       <<"strategic decision-making", "performance visibility", "resource allocation">>,
     benefits |->
       <<"data-driven decisions", "real-time performance insights", "optimized resource allocation">>,
     metrics |->
       <<"decision quality", "performance improvement", "resource efficiency">>],
    [id |-> "manager",
     pain_points |->
       <<"team productivity", "project tracking", "resource management">>,
     benefits |->
       <<"enhanced team output", "real-time project visibility", "efficient resource use">>,
     metrics |->
       <<"team productivity", "project completion rate", "resource utilization">>],
    [id |-> "specialist",
     pain_points |->
       <<"task efficiency", "knowledge access", "collaboration">>,
     benefits |->
       <<"automated workflows", "instant knowledge access", "seamless collaboration">>,
     metrics |->
       <<"task completion time", "knowledge utilization", "collaboration effectiveness">>] >>,
   value_proposition_templates |-> <<
     <<[text |-> "Our AI agent helps "],
       [field |-> "industry"],
       [text |-> " businesses address "],
       [field |-> "pain_point"],
       [text |-> " by providing "],
       [field |-> "benefit"],
       [text |-> ", resulting in "],
       [field |-> "metric_improvement"],
       [text |-> "."]>>,
     <<[text |-> "For "],
       [field |-> "business_size"],
       [text |-> " businesses in "],
       [field |-> "industry"],
       [text |-> ", our AI agent transforms "],
       [field |-> "pain_point"],
       [text |-> " into "],
       [field |-> "benefit"],
       [text |-> ", with measurable improvements in "],
       [field |-> "metric"],
       [text |-> "."]>>,
     <<[field |-> "role"],
       [text |-> "s in "],
       [field |-> "industry"],
       [text |-> " use our AI agent to overcome "],
       [field |-> "pain_point"],
       [text |-> ", achieving "],
       [field |-> "benefit"],
       [text |-> " and improving "],
       [field |-> "metric"],
       [text |-> "."]>>,
     <<[text |-> "Our AI agent is specifically designed to help "],
       [field |-> "business_size"],
       [text |-> " "],
       [field |-> "industry"],
       [text |-> " businesses turn "],
       [field |-> "pain_point"],
       [text |-> " challenges into "],
       [field |-> "benefit"],
       [text |-> " opportunities."]>>,
     <<[text |-> "By addressing "],
       [field |-> "pain_point"],
       [text |-> " for "],
       [field |-> "role"],
       [text |-> "s in "],
       [field |-> "industry"],
       [text |-> ", our AI agent delivers "],
       [field |-> "benefit"],
       [text |-> " with proven impact on "],
       [field |-> "metric"],
       [text |-> "."]>> >>]

\* how many of the elements of a list random.choice is followed into
MaxChoices == 2

\* dict.get(key, default_entry) on a dict of entries
get_or_default(table, key, default) ==
  IF HasKey(table, key) THEN Get(table, key) ELSE Get(table, default)

\* template.format(**values): the pieces of the template in order, each
\* replacement field replaced by the value of its name
RECURSIVE format(_, _)
format(template, values) ==
  IF template = <<>> THEN ""
  ELSE (IF "field" \in DOMAIN template[1] THEN values[template[1].field]
        ELSE template[1].text)
       \o format(Tail(template), values)

\* the outcomes of random.choice(list) that are followed
random_choice(list) ==
  {list[i] : i \in 1..(IF Len(list) < MaxChoices THEN Len(list)
                       ELSE MaxChoices)}

\* the outcomes of the four random choices of one proposition
proposition_choices(knowledge_base_, industry, business_size) ==
  LET industry_data_ ==
        get_or_default(knowledge_base_.industries, Str(lower(industry)),
                       "technology")
      size_data_ ==
        get_or_default(knowledge_base_.business_sizes,
                       Str(lower(business_size)), "medium")
  IN [pain_point :
        random_choice(industry_data_.pain_points \o size_data_.pain_points),
      benefit : random_choice(industry_data_.benefits \o size_data_.benefits),
      metric : random_choice(industry_data_.metrics \o size_data_.metrics),
      template : random_choice(knowledge_base_.value_proposition_templates)]

\* ValuePropositionGenerator.generate_value_proposition, the random choices
\* having come out as chosen
generate_value_proposition(industry, business_size, role, chosen) ==
  format(chosen.template,
         [industry |-> Str(lower(industry)),
          business_size |-> Str(lower(business_size)),
          role |-> Str(lower(role)),
          pain_point |-> chosen.pain_point,
          benefit |-> chosen.benefit,
          metric |-> chosen.metric,
          metric_improvement |-> "improved " \o chosen.metric])

\* ValuePropositionGenerator.generate_multiple_propositions, the choices of
\* the count calls having come out as chosen[1], ..., chosen[count]
generate_multiple_propositions(industry, business_size, role, count, chosen) ==
  [k \in 1..count |->
     generate_value_proposition(industry, business_size, role, chosen[k])]
  \o <<>>

----------------------------------------------------------------------------
(* Inputs *)

MaxPieces == 2
MaxKeywords == 1

\* fragments a business description is assembled from
Pieces ==
  { <<"b","a","n","k">>, <<"i","n","g">>, <<"I","T">>, <<"s","t","o","r","e">>,
    <<"h","o","t","e","l">>, <<" ">> }

\* the additional keywords a caller may pass
KeywordPool ==
  { <<"R","e","s","t","a","u","r","a","n","t">>,
    <<"E","q","u","i","p","m","e","n","t">> }

RECURSIVE SeqsUpTo(_, _)
SeqsUpTo(S, n) ==
  IF n = 0 THEN {<<>>}
  ELSE LET shorter == SeqsUpTo(S, n - 1)
       IN shorter \cup {Append(s, x) : s \in shorter, x \in S}

RECURSIVE concat(_)
concat(parts) == IF parts = <<>> THEN <<>> ELSE parts[1] \o concat(Tail(parts))

Descriptions == {concat(ps) : ps \in SeqsUpTo(Pieces, MaxPieces)}
KeywordLists == {None} \cup {Some(ks) : ks \in SeqsUpTo(KeywordPool, MaxKeywords)}

IndustryRequests ==
  [op : {"classify_industry"},
   business_description : Descriptions,
   additional_keywords : KeywordLists]

MaxMetrics == 1

\* the industry argument of analyze_business_size
SizeIndustries ==
  { <<"r","e","t","a","i","l">>, <<"H","e","a","l","t","h","c","a","r","e">>,
    <<"f","i","n","a","n","c","e">>,
    <<"m","a","n","u","f","a","c","t","u","r","i","n","g">>,
    <<"t","e","c","h","n","o","l","o","g","y">>,
    <<"c","o","n","s","u","l","t","i","n","g">> }

EmployeeCounts == {0, 75, 300}
Revenues == {0, 8000000}
MetricNames == {"locations", "beds", "employees", "foo"}
MetricValues == {5, 600}

\* dicts of at most n additional metrics: distinct names, any order
RECURSIVE MetricDicts(_)
MetricDicts(n) ==
  IF n = 0 THEN {<<>>}
  ELSE LET shorter == MetricDicts(n - 1)
       IN shorter \cup
          {Append(d, [name |-> m, value |-> v]) :
             d \in {e \in shorter : Len(e) = n - 1},
             m \in MetricNames, v \in MetricValues}

DistinctNames(d) == \A i, j \in 1..Len(d) : d[i].name = d[j].name => i = j

SizeRequests ==
  [op : {"analyze_business_size"},
   industry : SizeIndustries,
   employees_count : {None} \cup {Some(n) : n \in EmployeeCounts},
   annual_revenue : {None} \cup {Some(n) : n \in Revenues},
   additional_metrics :
     {None} \cup {Some(d) : d \in {e \in MetricDicts(MaxMetrics) : DistinctNames(e)}}]

\* fragments a job title is assembled from
TitlePieces ==
  { <<"C","E","O">>, <<"M","a","n","a","g","e","r">>, <<"b","a","n","k">>,
    <<"i","n","g">>, <<" ">> }

JobTitles == {concat(ps) : ps \in SeqsUpTo(TitlePieces, MaxPieces)}
AdditionalInfos == {None, Some(<<"L","o","a","n"," ","a","n","a","l","y","s","t">>)}
RoleIndustries ==
  {None, Some(<<"F","i","n","a","n","c","e">>), Some(<<"l","a","w">>)}

RoleRequests ==
  [op : {"recognize_role"},
   job_title : JobTitles,
   additional_info : AdditionalInfos,
   industry : RoleIndustries]

----------------------------------------------------------------------------
\* how far from a bound of a range a probed metric value may lie
Margin == 1

\* the generic threshold set followed by the industry-specific ones
ThresholdSets ==
  <<[id |-> "general", thresholds |-> default_size_data.general_thresholds]>>
  \o default_size_data.industry_specific_thresholds

\* the bounds that occur in the ranges of one metric
Bounds(ranges) ==
  UNION {(IF IsNone(ranges[i].min) THEN {} ELSE {Val(ranges[i].min)})
         \cup (IF IsNone(ranges[i].max) THEN {} ELSE {Val(ranges[i].max)}) :
           i \in 1..Len(ranges)}

\* metric values on and around every bound
ValuesNear(ranges) == {b + d : b \in Bounds(ranges), d \in (0 - Margin)..Margin}

\* the orders in which a dict of n buckets may be iterated
Orders(n) ==
  {p \in [1..n -> 1..n] : \A i, j \in 1..n : p[i] = p[j] => i = j}

\* the buckets of a metric, iterated in the given order
Reordered(ranges, order) == [i \in 1..Len(ranges) |-> ranges[order[i]]]

RangesOf(data, set_id, metric) ==
  IF set_id = "general" THEN Get(data.general_thresholds, metric).ranges
  ELSE Get(Get(data.industry_specific_thresholds, set_id).thresholds,
           metric).ranges

CategorizeRequests ==
  UNION {
    UNION {
      [op : {"_categorize_metric"},
       set_id : {ThresholdSets[s].id},
       metric : {ThresholdSets[s].thresholds[m].id},
       value : ValuesNear(ThresholdSets[s].thresholds[m].ranges),
       order : Orders(Len(ThresholdSets[s].thresholds[m].ranges))] :
      m \in 1..Len(ThresholdSets[s].thresholds)} :
    s \in 1..Len(ThresholdSets)}

\* ids handed to the lookups: registered ones, a case variant, unknown ones
IndustryIds ==
  {default_industry_data.industries[i].id :
     i \in 1..Len(default_industry_data.industries)}
  \cup {"Technology", "agriculture", ""}

SizeCategories ==
  { <<"s","m","a","l","l">>, <<"m","e","d","i","u","m">>,
    <<"e","n","t","e","r","p","r","i","s","e">>,
    <<"E","n","t","e","r","p","r","i","s","e">>,
    <<"m","i","c","r","o">>, <<"l","a","r","g","e">>, <<"h","u","g","e">>,
    <<>> }

OrganizationalRoleIds == {"executive", "manager", "specialist", "Executive",
                          "intern", ""}

RoleTypes == {"organizational", "functional", "industry_specific", "other"}
RoleIds == {"executive", "specialist", "technology", "sales", "banking",
            "clinical", "intern"}
LookupIndustries == {None, Some("finance"), Some("Finance"),
                     Some("healthcare"), Some("law")}

LookupRequests ==
  [op : {"get_industry_information"}, industry_id : IndustryIds]
  \cup [op : {"get_size_information"}, size_category : SizeCategories]
  \cup [op : {"get_communication_strategy"},
        organizational_role : OrganizationalRoleIds]
  \cup [op : {"get_role_information"}, role_type : RoleTypes,
        role_id : RoleIds, industry : LookupIndustries]

\* how many times a caller makes the same call in a row
MaxCalls == 2

\* the calls a caller repeats
RepeatRequests ==
  [op : {"classify_industry"},
   business_description : {concat(ps) : ps \in SeqsUpTo(Pieces, 1)},
   additional_keywords : {None} \cup {Some(<<k>>) : k \in KeywordPool}]
  \cup
  [op : {"analyze_business_size"},
   industry : {<<"r","e","t","a","i","l">>,
               <<"c","o","n","s","u","l","t","i","n","g">>},
   employees_count : {None} \cup {Some(n) : n \in EmployeeCounts},
   annual_revenue : {None} \cup {Some(n) : n \in Revenues},
   additional_metrics :
     {None, Some(<<[name |-> "locations", value |-> 5]>>),
      Some(<<[name |-> "employees", value |-> 600]>>)}]
  \cup
  [op : {"recognize_role"},
   job_title : {concat(ps) : ps \in SeqsUpTo(TitlePieces, 1)},
   additional_info : AdditionalInfos,
   industry : RoleIndustries]

\* documents other than the built-in defaults that a taxonomy file may hold
OtherIndustryDocument ==
  [industries |->
     <<[id |-> "agriculture", name |-> "Agriculture",
        description |-> "Farming and forestry.",
        keywords |-> << <<"f","a","r","m">> >>,
        sub_industries |-> <<>>]>>]

OtherSizeDocument ==
  [general_thresholds |->
     <<[id |-> "employees",
        ranges |-> <<[id |-> "small",
                      min |-> [type |-> "number", value |-> 0],
                      max |-> [type |-> "number", value |-> 9]],
                     [id |-> "medium",
                      min |-> [type |-> "number", value |-> 10],
                      max |-> [type |-> "null"]]>>]>>,
   industry_specific_thresholds |-> <<>>,
   size_characteristics |->
     <<[id |-> "medium", description |-> "Ten or more.",
        challenges |-> <<"Growth">>, opportunities |-> <<"Scale">>]>>]

OtherRoleDocument ==
  [organizational_roles |->
     <<[id |-> "manager", name |-> "Manager", description |-> "Leads a team.",
        keywords |-> << <<"l","e","a","d">> >>, interests |-> <<"teams">>]>>,
   functional_roles |-> <<>>,
   industry_specific_roles |-> <<>>,
   communication_strategies |-> <<>>]

\* what may be found at the three configured paths when a scorer is built
FileStates ==
  [industry : {Missing, Invalid, Document(OtherIndustryDocument),
               Document(json_dump("industry", default_industry_data))},
   size : {Missing, Invalid, Document(OtherSizeDocument),
           Document(json_dump("size", default_size_data))},
   role : {Missing, Invalid, Document(OtherRoleDocument),
           Document(json_dump("role", default_role_data))}]

ConstructRequests ==
  [op : {"IndustryClassifier", "BusinessSizeAnalyzer", "RoleRecognizer"}]

\* partial documents handed to the update operations
Category(id, value) == [id |-> id, kind |-> "dict", value |-> value]

\* one bucket of one metric
BucketUpdate(metric, bucket) ==
  [id |-> metric,
   ranges |-> <<[id |-> bucket, min |-> Some(1), max |-> Some(60)]>>]

UpdatedIndustries == {"retail", "healthcare", "finance", "agriculture"}
UpdatedMetrics == {"employees", "revenue", "locations", "stores"}
UpdatedBuckets == {"small", "medium", "huge"}
UpdatedSizes == {"small", "medium", "micro"}
UpdatedRoles == {"executive", "manager", "intern"}
UpdatedIndustryRoles == {"clinical", "administrative", "banking", "porter"}
UpdatedSubIndustries == {"apparel", "banking", "kiosks"}
UpdatedKeywords == {<<"s","h","o","p">>, <<"k","i","o","s","k">>}

SizeUpdates ==
  {<<Category("industry_specific_thresholds",
              <<[id |-> industry,
                 thresholds |-> <<BucketUpdate(metric, bucket)>>]>>)>> :
     industry \in UpdatedIndustries, metric \in UpdatedMetrics,
     bucket \in UpdatedBuckets}
  \cup
  {<<Category("general_thresholds", <<BucketUpdate(metric, bucket)>>)>> :
     metric \in UpdatedMetrics, bucket \in UpdatedBuckets}
  \cup
  {<<Category("size_characteristics",
              <<[id |-> size, description |-> "Revised."]>>)>> :
     size \in UpdatedSizes}
  \cup
  {<<Category("regional_thresholds",
              <<BucketUpdate("employees", "small")>>)>>,
   <<>>}

RoleUpdates ==
  {<<Category("organizational_roles",
              <<[id |-> role, name |-> "Renamed"]>>)>> :
     role \in UpdatedRoles}
  \cup
  {<<Category("industry_specific_roles",
              <<[id |-> industry,
                 roles |-> <<[id |-> role, name |-> "Renamed"]>>]>>)>> :
     industry \in UpdatedIndustries, role \in UpdatedIndustryRoles}
  \cup
  {<<Category("communication_strategies",
              <<[id |-> role, presentation_style |-> <<"Be brief">>]>>)>> :
     role \in UpdatedRoles}

IndustryUpdates ==
  {<<Category("industries",
              <<[id |-> industry, keywords |-> <<keyword>>]>>)>> :
     industry \in UpdatedIndustries, keyword \in UpdatedKeywords}
  \cup
  {<<Category("industries",
              <<[id |-> industry,
                 sub_industries |->
                   <<[id |-> sub_id, keywords |-> <<keyword>>]>>]>>)>> :
     industry \in UpdatedIndustries, sub_id \in UpdatedSubIndustries,
     keyword \in UpdatedKeywords}
  \cup
  {<<Category("industries",
              <<[id |-> industry, name |-> "Renamed"]>>)>> :
     industry \in UpdatedIndustries}
  \cup
  {<<Category("sectors", <<[id |-> "retail", name |-> "Renamed"]>>)>>}

UpdateRequests ==
  [op : {"update_size_data"}, new_data : SizeUpdates]
  \cup [op : {"update_role_data"}, new_data : RoleUpdates]
  \cup [op : {"update_industry_data"}, new_data : IndustryUpdates]

\* a new industry, or a keyword for an existing one
IndustryEntry(industry, keyword) ==
  <<Category("industries", <<[id |-> industry, keywords |-> <<keyword>>]>>)>>

\* updates of two classifiers bound to the same path; they name different
\* entries
WriterRequests ==
  [op : {"update_industry_data"},
   new_data : {IndustryEntry(industry, <<"k","i","o","s","k">>) :
                 industry \in {"retail", "finance", "agriculture", "mining"}},
   peer_data : {IndustryEntry(industry, <<"d","r","o","n","e">>) :
                  industry \in {"retail", "finance", "logistics", "energy"}}]

MaxSession == 3

\* the calls of a session: one after another on the scorers built so far
SessionRequests ==
  ConstructRequests
  \cup
  [op : {"classify_industry"},
   business_description : {<<"s","t","o","r","e">>},
   additional_keywords : {Some(<<<<"E","q","u","i","p","m","e","n","t">>>>)}]
  \cup
  [op : {"analyze_business_size"},
   industry : {<<"c","o","n","s","u","l","t","i","n","g">>},
   employees_count : {Some(75)},
   annual_revenue : {None},
   additional_metrics : {Some(<<[name |-> "locations", value |-> 5]>>)}]
  \cup
  [op : {"recognize_role"},
   job_title : {<<"C","E","O">>},
   additional_info : {None},
   industry : {Some(<<"F","i","n","a","n","c","e">>)}]
  \cup
  [op : {"update_industry_data"},
   new_data : {IndustryEntry("retail", <<"k","i","o","s","k">>)}]
  \cup
  [op : {"update_size_data"},
   new_data : {<<Category("general_thresholds",
                          <<BucketUpdate("employees", "small")>>)>>}]
  \cup
  [op : {"update_role_data"},
   new_data : {<<Category("organizational_roles",
                          <<[id |-> "manager", name |-> "Renamed"]>>)>>}]

\* the files a session may find: none yet, or those of an earlier session
SessionFileStates ==
  {[industry |-> Missing, size |-> Missing, role |-> Missing],
   [industry |-> Invalid, size |-> Invalid, role |-> Invalid],
   [industry |-> Document(json_dump("industry", default_industry_data)),
    size |-> Document(json_dump("size", default_size_data)),
    role |-> Document(json_dump("role", default_role_data))]}

\* the scorer a call is made on; a constructor needs none
ScorerOf(op) ==
  IF op \in {"classify_industry", "update_industry_data"} THEN {"industry"}
  ELSE IF op \in {"analyze_business_size", "update_size_data"} THEN {"size"}
  ELSE IF op \in {"recognize_role", "update_role_data"} THEN {"role"}
  ELSE {}

\* business contexts handed to generate_adaptation_strategy: what
\* analyze_business_context compiles, and ids no table knows
ContextIndustries ==
  {[id |-> "retail", name |-> "Retail"],
   [id |-> "healthcare", name |-> "Healthcare"],
   [id |-> "technology", name |-> "Technology"],
   [id |-> "education", name |-> "Education"],
   [id |-> "agriculture", name |-> "Agriculture"]}

ContextSubIndustries ==
  {None, Some([id |-> "apparel", name |-> "Apparel and Fashion"])}

ContextSizes ==
  {<<"s","m","a","l","l">>, <<"m","e","d","i","u","m">>,
   <<"e","n","t","e","r","p","r","i","s","e">>, <<"m","i","c","r","o">>,
   <<"l","a","r","g","e">>}

ContextRoles == {"executive", "manager", "specialist", "intern"}

ContextFunctions == {"technology", "marketing", "general"}

StrategyRequests ==
  {[op |-> "generate_adaptation_strategy",
    business_context |->
      [industry |-> [id |-> industry.id, name |-> industry.name,
                     sub_industry |-> sub_industry],
       business_size |-> [category |-> category],
       user_role |-> [organizational |-> [id |-> org_role],
                      functional |-> [id |-> func_role]]]] :
     industry \in ContextIndustries, sub_industry \in ContextSubIndustries,
     category \in ContextSizes, org_role \in ContextRoles,
     func_role \in ContextFunctions}

\* the rows of the role-recognition test table
RoleTestCases == {
  [title |->
     <<"C","E","O">>,
   info |->
     <<"R","e","s","p","o","n","s","i","b","l","e"," ","f","o","r"," ","o",
       "v","e","r","a","l","l"," ","c","o","m","p","a","n","y"," ","s","t",
       "r","a","t","e","g","y"," ","a","n","d"," ","g","r","o","w","t",
       "h">>,
   industry |-> <<"t","e","c","h","n","o","l","o","g","y">>,
   expected_org_role |-> "executive",
   expected_func_role |-> None],
  [title |->
     <<"M","a","r","k","e","t","i","n","g"," ","M","a","n","a","g","e",
       "r">>,
   info |->
     <<"O","v","e","r","s","e","e","s"," ","d","i","g","i","t","a","l"," ",
       "m","a","r","k","e","t","i","n","g"," ","c","a","m","p","a","i","g",
       "n","s"," ","a","n","d"," ","t","e","a","m"," ","o","f"," ","s","p",
       "e","c","i","a","l","i","s","t","s">>,
   industry |-> <<"r","e","t","a","i","l">>,
   expected_org_role |-> "manager",
   expected_func_role |-> Some("marketing")],
  [title |->
     <<"S","o","f","t","w","a","r","e"," ","D","e","v","e","l","o","p","e",
       "r">>,
   info |->
     <<"B","u","i","l","d","s"," ","w","e","b"," ","a","p","p","l","i","c",
       "a","t","i","o","n","s"," ","u","s","i","n","g"," ","m","o","d","e",
       "r","n"," ","f","r","a","m","e","w","o","r","k","s">>,
   industry |-> <<"t","e","c","h","n","o","l","o","g","y">>,
   expected_org_role |-> "specialist",
   expected_func_role |-> Some("technology")],
  [title |->
     <<"C","h","i","e","f"," ","F","i","n","a","n","c","i","a","l"," ","O",
       "f","f","i","c","e","r">>,
   info |->
     <<"M","a","n","a","g","e","s"," ","f","i","n","a","n","c","i","a","l",
       " ","o","p","e","r","a","t","i","o","n","s"," ","a","n","d"," ","r",
       "e","p","o","r","t","i","n","g">>,
   industry |-> <<"f","i","n","a","n","c","e">>,
   expected_org_role |-> "executive",
   expected_func_role |-> Some("finance")],
  [title |->
     <<"N","u","r","s","e"," ","P","r","a","c","t","i","t","i","o","n","e",
       "r">>,
   info |->
     <<"P","r","o","v","i","d","e","s"," ","p","a","t","i","e","n","t"," ",
       "c","a","r","e"," ","a","n","d"," ","t","r","e","a","t","m","e","n",
       "t"," ","i","n"," ","h","o","s","p","i","t","a","l"," ","s","e","t",
       "t","i","n","g">>,
   industry |-> <<"h","e","a","l","t","h","c","a","r","e">>,
   expected_org_role |-> "specialist",
   expected_func_role |-> None] }

\* the rows as they are in the table, and with the additional information
\* left out or another industry of the table given
RoleTableRequests ==
  UNION {
    {[op |-> "recognize_role", job_title |-> case.title,
      additional_info |-> additional_info, industry |-> industry] :
       additional_info \in {None, Some(case.info)},
       industry \in {None, Some(<<"l","a","w">>)}
                    \cup {Some(c.industry) : c \in RoleTestCases}} :
    case \in RoleTestCases}

PropositionCounts == {0, 1, 2}

PropositionRequests ==
  [op : {"generate_multiple_propositions"},
   industry : {<<"r","e","t","a","i","l">>, <<"L","a","w">>},
   business_size : {<<"m","e","d","i","u","m">>, <<"M","i","c","r","o">>},
   role : {<<"e","x","e","c","u","t","i","v","e">>},
   count : PropositionCounts]

----------------------------------------------------------------------------
(* Specification: a scorer is constructed with no taxonomy file present, so  *)
(* it holds the built-in defaults; one call is made and runs to completion.  *)

DefaultFiles ==
  [industry |-> Document(json_dump("industry", default_industry_data)),
   size |-> Document(json_dump("size", default_size_data)),
   role |-> Document(json_dump("role", default_role_data))]

\* no second classifier on the industry path
NoPeer == [constructed |-> FALSE, industry_data |-> [industries |-> <<>>]]

InitData ==
  /\ industry_data = default_industry_data
  /\ size_data = default_size_data
  /\ role_data = default_role_data
  /\ files = DefaultFiles
  /\ constructed = {"industry", "size", "role"}
  /\ peer = NoPeer
  /\ knowledge_base = default_knowledge_base

InitCall(requests) ==
  /\ InitData
  /\ request \in requests
  /\ response = None
  /\ locals = None
  /\ history = <<>>

\* variant: a classifier that learns, adding the caller's keywords to the
\* keywords of the industry it returns
ClassifyIndustryLearning ==
  /\ request.op = "classify_industry"
  /\ IsNone(response)
  /\ LET l == classify_locals(industry_data, request.business_description,
                              request.additional_keywords)
         result == classify_industry(industry_data, l)
         learned == IF IsNone(request.additional_keywords) THEN <<>>
                    ELSE [i \in 1..Len(Val(request.additional_keywords)) |->
                            lower(Val(request.additional_keywords)[i])]
     IN /\ locals' = Some(l)
        /\ response' = Some(result)
        /\ industry_data' =
             [industries |->
                [i \in 1..Len(industry_data.industries) |->
                   IF result.status = "ok"
                      /\ industry_data.industries[i].id
                           = result.primary_industry.id
                   THEN [industry_data.industries[i] EXCEPT
                           !.keywords = @ \o learned]
                   ELSE industry_data.industries[i]]]
  /\ UNCHANGED <<size_data, role_data, request, history,
               files, constructed, peer, knowledge_base>>

ClassifyIndustry ==
  /\ request.op = "classify_industry"
  /\ IsNone(response)
  /\ LET l == classify_locals(industry_data, request.business_description,
                              request.additional_keywords)
     IN /\ locals' = Some(l)
        /\ response' = Some(classify_industry(industry_data, l))
  /\ UNCHANGED <<industry_data, size_data, role_data, request, history,
               files, constructed, peer, knowledge_base>>

\* variant: an analyzer that registers an industry it has no thresholds for,
\* under the general thresholds
AnalyzeBusinessSizeRegistering ==
  /\ request.op = "analyze_business_size"
  /\ IsNone(response)
  /\ LET l == analyze_locals(size_data, request.industry, request.employees_count,
                             request.annual_revenue, request.additional_metrics)
         industry_lower == Str(lower(request.industry))
     IN /\ locals' = Some(l)
        /\ response' = Some(analyze_business_size(size_data, l))
        /\ size_data' =
             [size_data EXCEPT
                !.industry_specific_thresholds =
                  IF HasKey(@, industry_lower) THEN @
                  ELSE Append(@, [id |-> industry_lower,
                                  thresholds |-> size_data.general_thresholds])]
  /\ UNCHANGED <<industry_data, role_data, request, history,
               files, constructed, peer, knowledge_base>>

AnalyzeBusinessSize ==
  /\ request.op = "analyze_business_size"
  /\ IsNone(response)
  /\ LET l == analyze_locals(size_data, request.industry, request.employees_count,
                             request.annual_revenue, request.additional_metrics)
     IN /\ locals' = Some(l)
        /\ response' = Some(analyze_business_size(size_data, l))
  /\ UNCHANGED <<industry_data, size_data, role_data, request, history,
               files, constructed, peer, knowledge_base>>

RecognizeRole ==
  /\ request.op = "recognize_role"
  /\ IsNone(response)
  /\ LET l == recognize_locals(role_data, request.job_title,
                               request.additional_info, request.industry)
     IN /\ locals' = Some(l)
        /\ response' = Some(recognize_role(role_data, l))
  /\ UNCHANGED <<industry_data, size_data, role_data, request, history,
               files, constructed, peer, knowledge_base>>

\* _categorize_metric(value, thresholds[metric]), the buckets of the metric
\* being iterated in the order the request fixes
CategorizeMetric ==
  /\ request.op = "_categorize_metric"
  /\ IsNone(response)
  /\ LET thresholds == Reordered(RangesOf(size_data, request.set_id,
                                          request.metric), request.order)
     IN /\ locals' = Some([thresholds |-> thresholds])
        /\ response' = Some([status |-> "ok",
                             category |-> _categorize_metric(request.value,
                                                             thresholds)])
  /\ UNCHANGED <<industry_data, size_data, role_data, request, history,
               files, constructed, peer, knowledge_base>>

GetIndustryInformation ==
  /\ request.op = "get_industry_information"
  /\ IsNone(response)
  /\ response' = Some(get_industry_information(industry_data,
                                               request.industry_id))
  /\ UNCHANGED <<industry_data, size_data, role_data, request, locals, history,
               files, constructed, peer, knowledge_base>>

GetSizeInformation ==
  /\ request.op = "get_size_information"
  /\ IsNone(response)
  /\ response' = Some(get_size_information(size_data, request.size_category))
  /\ UNCHANGED <<industry_data, size_data, role_data, request, locals, history,
               files, constructed, peer, knowledge_base>>

GetRoleInformation ==
  /\ request.op = "get_role_information"
  /\ IsNone(response)
  /\ response' = Some(get_role_information(role_data, request.role_type,
                                           request.role_id, request.industry))
  /\ UNCHANGED <<industry_data, size_data, role_data, request, locals, history,
               files, constructed, peer, knowledge_base>>

GetCommunicationStrategy ==
  /\ request.op = "get_communication_strategy"
  /\ IsNone(response)
  /\ response' = Some(get_communication_strategy(role_data,
                                                 request.organizational_role))
  /\ UNCHANGED <<industry_data, size_data, role_data, request, locals, history,
               files, constructed, peer, knowledge_base>>

\* the caller keeps the outcome and makes the same call once more, on the
\* same scorer
CallAgain ==
  /\ request.op \in {"classify_industry", "analyze_business_size",
                     "recognize_role"}
  /\ ~IsNone(response)
  /\ Len(history) + 1 < MaxCalls
  /\ history' = Append(history, Val(response))
  /\ response' = None
  /\ locals' = None
  /\ UNCHANGED <<industry_data, size_data, role_data, request,
               files, constructed, peer, knowledge_base>>

\* the attributes of scorers that do not exist yet
NoIndustryData == [industries |-> <<>>]
NoSizeData ==
  [general_thresholds |-> <<>>, industry_specific_thresholds |-> <<>>,
   size_characteristics |-> <<>>]
NoRoleData ==
  [organizational_roles |-> <<>>, functional_roles |-> <<>>,
   industry_specific_roles |-> <<>>, communication_strategies |-> <<>>]

\* no scorer exists yet; the files are in one of the given states
InitUnbuilt(requests, file_states) ==
  /\ industry_data = NoIndustryData
  /\ size_data = NoSizeData
  /\ role_data = NoRoleData
  /\ files \in file_states
  /\ constructed = {}
  /\ peer = NoPeer
  /\ knowledge_base = default_knowledge_base
  /\ request \in requests
  /\ response = None
  /\ locals = None
  /\ history = <<>>

\* IndustryClassifier(industry_data_path)
ConstructIndustryClassifier ==
  /\ request.op = "IndustryClassifier"
  /\ IsNone(response)
  /\ LET loaded == _load_data("industry", files.industry,
                              default_industry_data)
     IN /\ industry_data' = loaded.data
        /\ files' = [files EXCEPT !.industry = loaded.file]
  /\ constructed' = constructed \cup {"industry"}
  /\ locals' = Some([found |-> files.industry.kind])
  /\ response' = Some([status |-> "ok"])
  /\ UNCHANGED <<size_data, role_data, request, history, peer,
               knowledge_base>>

\* BusinessSizeAnalyzer(size_data_path)
ConstructBusinessSizeAnalyzer ==
  /\ request.op = "BusinessSizeAnalyzer"
  /\ IsNone(response)
  /\ LET loaded == _load_data("size", files.size, default_size_data)
     IN /\ size_data' = loaded.data
        /\ files' = [files EXCEPT !.size = loaded.file]
  /\ constructed' = constructed \cup {"size"}
  /\ locals' = Some([found |-> files.size.kind])
  /\ response' = Some([status |-> "ok"])
  /\ UNCHANGED <<industry_data, role_data, request, history, peer,
               knowledge_base>>

\* RoleRecognizer(role_data_path)
ConstructRoleRecognizer ==
  /\ request.op = "RoleRecognizer"
  /\ IsNone(response)
  /\ LET loaded == _load_data("role", files.role, default_role_data)
     IN /\ role_data' = loaded.data
        /\ files' = [files EXCEPT !.role = loaded.file]
  /\ constructed' = constructed \cup {"role"}
  /\ locals' = Some([found |-> files.role.kind])
  /\ response' = Some([status |-> "ok"])
  /\ UNCHANGED <<industry_data, size_data, request, history, peer,
               knowledge_base>>

InitIndustry == InitCall(IndustryRequests)
NextIndustry == ClassifyIndustry
SpecIndustry == InitIndustry /\ [][NextIndustry]_vars

InitSize == InitCall(SizeRequests)
NextSize == AnalyzeBusinessSize
SpecSize == InitSize /\ [][NextSize]_vars

InitRole == InitCall(RoleRequests)
NextRole == RecognizeRole
SpecRole == InitRole /\ [][NextRole]_vars

InitCategorize == InitCall(CategorizeRequests)
NextCategorize == CategorizeMetric
SpecCategorize == InitCategorize /\ [][NextCategorize]_vars

InitLookup == InitCall(LookupRequests)
NextLookup ==
  \/ GetIndustryInformation
  \/ GetSizeInformation
  \/ GetRoleInformation
  \/ GetCommunicationStrategy
SpecLookup == InitLookup /\ [][NextLookup]_vars

InitRepeat == InitCall(RepeatRequests)
NextRepeat ==
  \/ ClassifyIndustry
  \/ AnalyzeBusinessSize
  \/ RecognizeRole
  \/ CallAgain
SpecRepeat == InitRepeat /\ [][NextRepeat]_vars

InitConstruct == InitUnbuilt(ConstructRequests, FileStates)
NextConstruct ==
  \/ ConstructIndustryClassifier
  \/ ConstructBusinessSizeAnalyzer
  \/ ConstructRoleRecognizer
SpecConstruct == InitConstruct /\ [][NextConstruct]_vars

\* IndustryClassifier.update_industry_data(new_data)
UpdateIndustryData ==
  /\ request.op = "update_industry_data"
  /\ IsNone(response)
  /\ "industry" \in constructed
  /\ LET updated == update_industry_data(industry_data, request.new_data)
     IN /\ industry_data' = updated.data
        /\ files' = [files EXCEPT !.industry = updated.file]
  /\ response' = Some([status |-> "ok"])
  /\ UNCHANGED <<size_data, role_data, request, locals, history,
                 constructed, peer, knowledge_base>>

\* BusinessSizeAnalyzer.update_size_data(new_data)
UpdateSizeData ==
  /\ request.op = "update_size_data"
  /\ IsNone(response)
  /\ "size" \in constructed
  /\ LET updated == update_size_data(size_data, request.new_data)
     IN /\ size_data' = updated.data
        /\ files' = [files EXCEPT !.size = updated.file]
  /\ response' = Some([status |-> "ok"])
  /\ UNCHANGED <<industry_data, role_data, request, locals, history,
                 constructed, peer, knowledge_base>>

\* RoleRecognizer.update_role_data(new_data)
UpdateRoleData ==
  /\ request.op = "update_role_data"
  /\ IsNone(response)
  /\ "role" \in constructed
  /\ LET updated == update_role_data(role_data, request.new_data)
     IN /\ role_data' = updated.data
        /\ files' = [files EXCEPT !.role = updated.file]
  /\ response' = Some([status |-> "ok"])
  /\ UNCHANGED <<industry_data, size_data, request, locals, history,
                 constructed, peer, knowledge_base>>

InitUpdate == InitCall(UpdateRequests)

NextUpdate == UpdateIndustryData \/ UpdateSizeData \/ UpdateRoleData

SpecUpdate == InitUpdate /\ [][NextUpdate]_vars

\* a second IndustryClassifier(industry_data_path) is built on the same path
ConstructPeer ==
  /\ ~peer.constructed
  /\ LET loaded == _load_data("industry", files.industry,
                              default_industry_data)
     IN /\ peer' = [constructed |-> TRUE, industry_data |-> loaded.data]
        /\ files' = [files EXCEPT !.industry = loaded.file]
  /\ UNCHANGED <<industry_data, size_data, role_data, request, response,
                 locals, history, constructed, knowledge_base>>

\* update_industry_data(peer_data) on the second classifier
PeerUpdateIndustryData ==
  /\ peer.constructed
  /\ history = <<>>
  /\ LET updated == update_industry_data(peer.industry_data,
                                         request.peer_data)
     IN /\ peer' = [peer EXCEPT !.industry_data = updated.data]
        /\ files' = [files EXCEPT !.industry = updated.file]
  /\ history' = <<[status |-> "ok"]>>
  /\ UNCHANGED <<industry_data, size_data, role_data, request, response,
                 locals, constructed, knowledge_base>>

InitWriters == InitCall(WriterRequests)

NextWriters == ConstructPeer \/ UpdateIndustryData \/ PeerUpdateIndustryData

SpecWriters == InitWriters /\ [][NextWriters]_vars

\* the caller goes on to the next call, on a scorer that has been built
NextCall ==
  /\ ~IsNone(response)
  /\ Len(history) + 1 < MaxSession
  /\ \E call \in SessionRequests :
       /\ ScorerOf(call.op) \subseteq constructed
       /\ request' = call
  /\ history' = Append(history, [op |-> request.op])
  /\ response' = None
  /\ locals' = None
  /\ UNCHANGED <<industry_data, size_data, role_data, files, constructed,
                 peer, knowledge_base>>

InitSession == InitUnbuilt(ConstructRequests, SessionFileStates)

NextSession ==
  \/ ConstructIndustryClassifier
  \/ ConstructBusinessSizeAnalyzer
  \/ ConstructRoleRecognizer
  \/ ClassifyIndustry
  \/ AnalyzeBusinessSize
  \/ RecognizeRole
  \/ UpdateIndustryData
  \/ UpdateSizeData
  \/ UpdateRoleData
  \/ NextCall

SpecSession == InitSession /\ [][NextSession]_vars

\* BusinessContextAdapter.generate_adaptation_strategy(business_context)
GenerateAdaptationStrategy ==
  /\ request.op = "generate_adaptation_strategy"
  /\ IsNone(response)
  /\ response' = Some(generate_adaptation_strategy(
                        industry_data, size_data, role_data,
                        request.business_context))
  /\ UNCHANGED <<industry_data, size_data, role_data, request, locals,
                 history, files, constructed, peer, knowledge_base>>

InitStrategy == InitCall(StrategyRequests)

NextStrategy == GenerateAdaptationStrategy

SpecStrategy == InitStrategy /\ [][NextStrategy]_vars

InitRoleTable == InitCall(RoleTableRequests)
NextRoleTable == RecognizeRole
SpecRoleTable == InitRoleTable /\ [][NextRoleTable]_vars

\* ValuePropositionGenerator.generate_multiple_propositions(industry,
\* business_size, role, count): one random outcome per proposition
GenerateMultiplePropositions ==
  /\ request.op = "generate_multiple_propositions"
  /\ IsNone(response)
  /\ \E chosen \in [1..request.count ->
                      proposition_choices(knowledge_base, request.industry,
                                          request.business_size)] :
       response' =
         Some([status |-> "ok",
               propositions |->
                 generate_multiple_propositions(
                   request.industry, request.business_size, request.role,
                   request.count, chosen)])
  /\ UNCHANGED <<industry_data, size_data, role_data, request, locals,
                 history, files, constructed, peer, knowledge_base>>

InitPropositions == InitCall(PropositionRequests)

NextPropositions == GenerateMultiplePropositions

SpecPropositions == InitPropositions /\ [][NextPropositions]_vars

Init == InitCall(IndustryRequests \cup SizeRequests \cup RoleRequests)
Next == ClassifyIndustry \/ AnalyzeBusinessSize \/ RecognizeRole
Spec == Init /\ [][Next]_vars

----------------------------------------------------------------------------
(* Properties *)

Done(op) == request.op = op /\ ~IsNone(response)
Returned(op) == Done(op) /\ Val(response).status = "ok"

\* keyword k stands in text at position i as a whole word: the characters
\* next to it, if any, are not word characters
Delimited(k, text, i) ==
  /\ text[i] = k[1]
  /\ i + Len(k) - 1 <= Len(text)
  /\ SubSeq(text, i, i + Len(k) - 1) = k
  /\ (i = 1 \/ text[i - 1] \notin WordChars)
  /\ (i + Len(k) > Len(text) \/ text[i + Len(k)] \notin WordChars)

Occurrences(k, text) == Cardinality({i \in 1..Len(text) : Delimited(k, text, i)})

RECURSIVE OccSum(_, _)
OccSum(keywords, text) ==
  IF keywords = <<>> THEN 0
  ELSE Occurrences(keywords[1], text) + OccSum(Tail(keywords), text)

RECURSIVE SubOccSum(_, _)
SubOccSum(sub_industries, text) ==
  IF sub_industries = <<>> THEN 0
  ELSE OccSum(sub_industries[1].keywords, text)
       + SubOccSum(Tail(sub_industries), text)

LowerAll(keywords) == [i \in 1..Len(keywords) |-> lower(keywords[i])]

RECURSIVE WeightedOccSum(_, _)
WeightedOccSum(keywords, text) ==
  IF keywords = <<>> THEN 0
  ELSE Occurrences(lower(keywords[1]), text) * (10 + Len(keywords[1]))
       + WeightedOccSum(Tail(keywords), text)

ScoreIn(scores, id) == IF HasKey(scores, id) THEN Get(scores, id).score_x20 ELSE 0

IndexOf(d, k) == CHOOSE i \in DOMAIN d : d[i].id = k

\* C1: analyze_business_size returns a structurally complete result record and
\* never raises, whichever of employees_count, annual_revenue and
\* additional_metrics are supplied or omitted.
C1_AlwaysReturnsCompleteResult ==
  Done("analyze_business_size") =>
    /\ Val(response).status = "ok"
    /\ {"size_category", "confidence", "description", "challenges",
        "opportunities", "metrics_analysis"} \subseteq DOMAIN Val(response)

\* the values the caller supplied under a metric name
SuppliedValues(metric) ==
  (IF metric = "employees" /\ ~IsNone(request.employees_count)
   THEN {Val(request.employees_count)} ELSE {})
  \cup
  (IF metric = "revenue" /\ ~IsNone(request.annual_revenue)
   THEN {Val(request.annual_revenue)} ELSE {})
  \cup
  (IF IsNone(request.additional_metrics) THEN {}
   ELSE {Val(request.additional_metrics)[i].value :
           i \in {j \in 1..Len(Val(request.additional_metrics)) :
                    Val(request.additional_metrics)[j].name = metric}})

\* C2: every entry of metrics_analysis carries the value that was supplied
\* for that same metric.
C2_EntryCarriesOwnValue ==
  Returned("analyze_business_size") =>
    \A i \in 1..Len(Val(response).metrics_analysis) :
      Val(response).metrics_analysis[i].value
        \in SuppliedValues(Val(response).metrics_analysis[i].id)

InPercentRange(c) == 0 <= c /\ c <= 10000

\* C3: every confidence a classifier returns lies in [0, 100] (here 0..10000
\* hundredths): primary and sub-industry, size, and the three role confidences.
C3_ConfidenceInRange ==
  /\ Returned("classify_industry") =>
       /\ InPercentRange(Val(response).primary_industry.confidence)
       /\ InPercentRange(Val(response).sub_industry.confidence)
  /\ Returned("analyze_business_size") =>
       InPercentRange(Val(response).confidence)
  /\ Returned("recognize_role") =>
       /\ InPercentRange(Val(response).organizational_role.confidence)
       /\ InPercentRange(Val(response).functional_role.confidence)
       /\ ~IsNone(Val(response).industry_specific_role) =>
            InPercentRange(Val(Val(response).industry_specific_role).confidence)

\* two roles of one taxonomy share the score, so a confidence strictly inside
\* the range was computed
C3_Witness ==
  /\ Returned("recognize_role")
  /\ ~IsNone(Val(response).industry_specific_role)
  /\ Val(Val(response).industry_specific_role).confidence > 0
  /\ Val(Val(response).industry_specific_role).confidence < 10000

\* C4: keyword matching is case-insensitive in every scorer: an occurrence is
\* counted whatever the letter case of the input and whatever the letter case
\* in which the taxonomy stores the keyword.
C4_CaseInsensitiveEverywhere ==
  /\ Done("classify_industry") =>
       \A i \in 1..Len(industry_data.industries) :
         Val(locals).industry_scores[i].score_x2 =
           2 * OccSum(LowerAll(industry_data.industries[i].keywords),
                      Val(locals).description_lower)
           + SubOccSum([j \in 1..Len(industry_data.industries[i].sub_industries) |->
                          [keywords |-> LowerAll(industry_data.industries[i]
                                                   .sub_industries[j].keywords)]],
                       Val(locals).description_lower)
  /\ Done("recognize_role") =>
       /\ \A i \in 1..Len(role_data.organizational_roles) :
            ScoreIn(Val(locals).organizational_role_scores,
                    role_data.organizational_roles[i].id)
              = WeightedOccSum(role_data.organizational_roles[i].keywords,
                               Val(locals).combined_text)
       /\ \A i \in 1..Len(role_data.functional_roles) :
            ScoreIn(Val(locals).functional_role_scores,
                    role_data.functional_roles[i].id)
              = WeightedOccSum(role_data.functional_roles[i].keywords,
                               Val(locals).combined_text)

Banking == <<"b","a","n","k","i","n","g">>
Bank == <<"b","a","n","k">>

\* C5: keyword matching is whole-word: an industry or role scores above 0
\* exactly when one of its keywords stands in the corpus delimited by word
\* boundaries; the corpus "banking" counts nothing for the keyword "bank"
\* (finance scores 1.5, from "banking" alone), and the corpus "bank" counts
\* the keyword "bank" exactly once (finance scores 1.5, from "bank" alone).
C5_WholeWordMatching ==
  /\ Done("classify_industry") =>
       /\ \A i \in 1..Len(industry_data.industries) :
            (Val(locals).industry_scores[i].score_x2 > 0)
              <=> (OccSum(industry_data.industries[i].keywords,
                          Val(locals).description_lower)
                   + SubOccSum(industry_data.industries[i].sub_industries,
                               Val(locals).description_lower) > 0)
       /\ Val(locals).description_lower \in {Bank, Banking} =>
            /\ Get(Val(locals).industry_scores, "finance").score_x2 = 3
            /\ Get(Get(Val(locals).sub_industry_scores, "finance").scores,
                   "banking").score = 1
  /\ Done("recognize_role") =>
       /\ \A i \in 1..Len(role_data.organizational_roles) :
            HasKey(Val(locals).organizational_role_scores,
                   role_data.organizational_roles[i].id)
              <=> WeightedOccSum(role_data.organizational_roles[i].keywords,
                                 Val(locals).combined_text) > 0
       /\ (Val(locals).combined_text = Bank \o <<" ">>
           /\ Val(locals).has_industry_roles) =>
            Val(locals).industry_role_scores = <<>>
       /\ (Val(locals).combined_text = Banking \o <<" ">>
           /\ Val(locals).has_industry_roles) =>
            Val(locals).industry_role_scores = <<[id |-> "banking", score_x20 |-> 17]>>

\* the corpus is exactly "banking" and was scored
C5_Witness ==
  /\ Done("classify_industry")
  /\ Val(locals).description_lower = Banking

C7_PrimaryIsFirstMaximum ==
  (Returned("classify_industry")
   /\ \E i \in 1..Len(Val(locals).industry_scores) :
        Val(locals).industry_scores[i].score_x2 > 0) =>
    LET scores == Val(locals).industry_scores
        p == IndexOf(scores, Val(response).primary_industry.id)
    IN \A j \in 1..Len(scores) :
         /\ scores[j].score_x2 <= scores[p].score_x2
         /\ j < p => scores[j].score_x2 < scores[p].score_x2

\* several industries tie at the maximal score
C7_Witness ==
  /\ Returned("classify_industry")
  /\ LET scores == Val(locals).industry_scores
         p == IndexOf(scores, Val(response).primary_industry.id)
     IN /\ scores[p].score_x2 > 0
        /\ \E j \in 1..Len(scores) :
             j # p /\ scores[j].score_x2 = scores[p].score_x2

\* C8: with a positive total the primary confidence is 100 x score(primary) /
\* sum of all industry scores, to within half a hundredth; when no keyword of
\* any industry or sub-industry occurs the primary industry is "technology"
\* with confidence 0.
C8_PrimaryConfidence ==
  Returned("classify_industry") =>
    LET scores == Val(locals).industry_scores
        total == sum([i \in 1..Len(scores) |-> scores[i].score_x2])
        top == Get(scores, Val(response).primary_industry.id).score_x2
        conf == Val(response).primary_industry.confidence
        diff == conf * total - 10000 * top
    IN /\ total > 0 => (2 * diff <= total /\ -2 * diff <= total)
       /\ (\A i \in 1..Len(industry_data.industries) :
             OccSum(industry_data.industries[i].keywords,
                    Val(locals).description_lower)
             + SubOccSum(industry_data.industries[i].sub_industries,
                         Val(locals).description_lower) = 0)
          => (Val(response).primary_industry.id = "technology" /\ conf = 0)

\* the primary industry holds a share of the total strictly between 0 and 100
C8_Witness ==
  /\ Returned("classify_industry")
  /\ Val(response).primary_industry.confidence > 0
  /\ Val(response).primary_industry.confidence < 10000

\* C9: the sub-industry is chosen among the sub-industries of the primary
\* industry only: the first of maximal sub-score, named as the primary
\* industry names it; when all of them score 0 the record is id "", name "",
\* confidence 0.
C9_SubIndustryOfPrimary ==
  Returned("classify_industry") =>
    LET p == Val(response).primary_industry.id
        subs == Get(Val(locals).sub_industry_scores, p).scores
        sub == Val(response).sub_industry
    IN IF \A j \in 1..Len(subs) : subs[j].score = 0
       THEN sub = [id |-> "", name |-> "", confidence |-> 0]
       ELSE \E j \in 1..Len(subs) :
              /\ sub.id = subs[j].id
              /\ sub.name = Get(industry_data.industries, p).sub_industries[j].name
              /\ \A k \in 1..Len(subs) :
                   /\ subs[k].score <= subs[j].score
                   /\ k < j => subs[k].score < subs[j].score

\* no sub-industry of the primary industry matched while a sub-industry of
\* another industry did
C9_Witness ==
  /\ Returned("classify_industry")
  /\ Val(response).primary_industry.confidence > 0
  /\ Val(response).sub_industry.id = ""
  /\ \E i \in 1..Len(Val(locals).sub_industry_scores) :
       \E j \in 1..Len(Val(locals).sub_industry_scores[i].scores) :
         Val(locals).sub_industry_scores[i].scores[j].score > 0

\* C10: all_matches holds exactly the industries scoring above 0, each with its
\* name and score and exactly its sub-industries scoring above 0; so the
\* primary industry is a key of all_matches exactly when its confidence is > 0.
C10_AllMatchesExactlyPositive ==
  Returned("classify_industry") =>
    LET scores == Val(locals).industry_scores
        am == Val(response).all_matches
    IN /\ {am[k].id : k \in 1..Len(am)}
            = {scores[i].id : i \in {n \in 1..Len(scores) : scores[n].score_x2 > 0}}
       /\ \A k, m \in 1..Len(am) : am[k].id = am[m].id => k = m
       /\ \A k \in 1..Len(am) :
            LET info == Get(industry_data.industries, am[k].id)
                subs == Get(Val(locals).sub_industry_scores, am[k].id).scores
            IN /\ am[k].name = info.name
               /\ am[k].score_x2 = Get(scores, am[k].id).score_x2
               /\ {<<e.id, e.name, e.score>> :
                     e \in {am[k].sub_industries[n] :
                              n \in 1..Len(am[k].sub_industries)}}
                    = {<<subs[j].id, info.sub_industries[j].name, subs[j].score>> :
                         j \in {n \in 1..Len(subs) : subs[n].score > 0}}
               /\ Len(am[k].sub_industries)
                    = Cardinality({n \in 1..Len(subs) : subs[n].score > 0})
       /\ HasKey(am, Val(response).primary_industry.id)
            <=> Val(response).primary_industry.confidence > 0

\* two industries matched, one of them with some but not all of its
\* sub-industries
C10_Witness ==
  /\ Returned("classify_industry")
  /\ Len(Val(response).all_matches) >= 2
  /\ \E k \in 1..Len(Val(response).all_matches) :
       LET e == Val(response).all_matches[k]
       IN /\ Len(e.sub_industries) > 0
          /\ Len(e.sub_industries)
               < Len(Get(industry_data.industries, e.id).sub_industries)

\* a value satisfies the bounds of a range; a range with neither bound is
\* satisfied by nothing
Contains(range, value) ==
  /\ ~(IsNone(range.min) /\ IsNone(range.max))
  /\ (IsNone(range.min) \/ Val(range.min) <= value)
  /\ (IsNone(range.max) \/ value <= Val(range.max))

\* the positions of the ranges that contain the value
Containing(ranges, value) ==
  {i \in 1..Len(ranges) : Contains(ranges[i], value)}

\* the label a metric value is given: the first range containing it, "medium"
\* when there is none
LabelOf(ranges, value) ==
  IF Containing(ranges, value) = {} THEN "medium"
  ELSE ranges[CHOOSE i \in Containing(ranges, value) :
                \A j \in Containing(ranges, value) : i <= j].id

\* the metrics a call evaluates, in evaluation order: employees, revenue, then
\* the additional metrics as given, each one only if the active threshold set
\* has ranges under its name
Evaluated(req) ==
  LET thresholds == active_thresholds(size_data, req.industry)
      Known(m) == HasKey(thresholds, m.name)
      Vote(name, value, weight_x10) ==
        [metric |-> name, value |-> value, weight_x10 |-> weight_x10,
         category |-> LabelOf(Get(thresholds, name).ranges, value)]
      additional == IF IsNone(req.additional_metrics) THEN <<>>
                    ELSE SelectSeq(Val(req.additional_metrics), Known)
  IN (IF ~IsNone(req.employees_count) /\ HasKey(thresholds, "employees")
      THEN <<Vote("employees", Val(req.employees_count), 4)>> ELSE <<>>)
     \o
     (IF ~IsNone(req.annual_revenue) /\ HasKey(thresholds, "revenue")
      THEN <<Vote("revenue", Val(req.annual_revenue), 4)>> ELSE <<>>)
     \o
     [i \in 1..Len(additional) |->
        Vote(additional[i].name, additional[i].value, 2)]

VotesFor(votes, c) == {i \in 1..Len(votes) : votes[i].category = c}
FirstVoteFor(votes, c) ==
  CHOOSE i \in VotesFor(votes, c) : \A j \in VotesFor(votes, c) : i <= j

\* label w beats label c: more votes, or as many and an earlier first vote
Beats(votes, w, c) ==
  \/ Cardinality(VotesFor(votes, w)) > Cardinality(VotesFor(votes, c))
  \/ /\ Cardinality(VotesFor(votes, w)) = Cardinality(VotesFor(votes, c))
     /\ FirstVoteFor(votes, w) < FirstVoteFor(votes, c)

RECURSIVE WeightSum(_, _)
WeightSum(votes, S) ==
  IF S = {} THEN 0
  ELSE LET i == CHOOSE j \in S : TRUE
       IN votes[i].weight_x10 + WeightSum(votes, S \ {i})

\* C12: the confidence returned is 100 x (weights of the evaluated metrics
\* whose category is the final one) / (weights of all evaluated metrics), the
\* weights being 0.4 for employees, 0.4 for revenue and 0.2 for each
\* additional metric; with no metric evaluated the result is "medium" with
\* confidence 0; when all evaluated metrics agree the confidence is 100.
C12_ConfidenceIsWeightShare ==
  Returned("analyze_business_size") =>
    LET votes == Evaluated(request)
        final == Val(response).size_category
    IN IF votes = <<>>
       THEN final = "medium" /\ Val(response).confidence = 0
       ELSE /\ Val(response).confidence =
                 round2(WeightSum(votes, VotesFor(votes, final)),
                        WeightSum(votes, 1..Len(votes)))
            /\ VotesFor(votes, final) = 1..Len(votes) =>
                 Val(response).confidence = 10000

\* C13: the description, challenges and opportunities of a result are the
\* ones the taxonomy records for the returned size_category itself, whichever
\* threshold set (industry-specific or generic) produced that category.
C13_CharacteristicsOfReturnedCategory ==
  Returned("analyze_business_size") =>
    /\ HasKey(size_data.size_characteristics, Val(response).size_category)
    /\ LET own == Get(size_data.size_characteristics,
                      Val(response).size_category)
       IN /\ Val(response).description = own.description
          /\ Val(response).challenges = own.challenges
          /\ Val(response).opportunities = own.opportunities

\* the buckets of the requested metric as the default data lists them
RequestedRanges == RangesOf(size_data, request.set_id, request.metric)

\* C14: in every default threshold set and for every metric the ranges are
\* mutually exclusive: no value satisfies the bounds of two buckets, so
\* _categorize_metric returns the same bucket in whatever order the buckets
\* are iterated, or "medium" when no range contains the value. (Two closed
\* ranges with integer bounds that share a point share an integer, so
\* integer values on and around the bounds decide it.)
C14_RangesMutuallyExclusive ==
  Done("_categorize_metric") =>
    /\ Cardinality(Containing(RequestedRanges, request.value)) <= 1
    /\ Val(response).category = LabelOf(RequestedRanges, request.value)

\* a value inside a range was categorized with the buckets iterated in
\* reverse order
C14_Witness ==
  /\ Done("_categorize_metric")
  /\ \A i \in DOMAIN request.order :
       request.order[i] = Len(request.order) + 1 - i
  /\ Containing(RequestedRanges, request.value) # {}
  /\ Val(response).category # "medium"

\* C15: in every default threshold set and for every metric the ranges are
\* collectively exhaustive: every non-negative integer value, 0 included,
\* lies in the range of some bucket, so the category of a supplied metric is
\* never the "medium" given when no range matches.
C15_RangesExhaustive ==
  Done("_categorize_metric") /\ request.value >= 0 =>
    Containing(RequestedRanges, request.value) # {}

\* what one keyword adds to a role score, times 20
Contribution(keyword, text) ==
  Occurrences(lower(keyword), text) * (10 + Len(keyword))

\* every role of a taxonomy has the score the formula gives; roles that score
\* 0 are the ones left out of the score dict
ScoredByFormula(roles, scores, text) ==
  \A i \in 1..Len(roles) :
    /\ ScoreIn(scores, roles[i].id) = WeightedOccSum(roles[i].keywords, text)
    /\ LET keywords == roles[i].keywords
           occurs == [a \in 1..Len(keywords) |->
                        Occurrences(lower(keywords[a]), text)] \o <<>>
           adds == [a \in 1..Len(keywords) |->
                      Contribution(keywords[a], text)] \o <<>>
       IN \A a, b \in 1..Len(keywords) :
            /\ occurs[a] = 0 => adds[a] = 0
            /\ (occurs[a] = occurs[b] /\ occurs[a] > 0
                  /\ Len(keywords[a]) > Len(keywords[b]))
               => adds[a] > adds[b]

\* the industry-specific roles a call scores: those registered under the
\* lowercased industry, none when no industry is given or none is registered
ScoredIndustryRoles ==
  IF Val(locals).has_industry_roles
  THEN Get(role_data.industry_specific_roles, Val(locals).industry_lower).roles
  ELSE <<>>

\* C16: the score of a role is the sum over its keywords of (whole-word
\* occurrences of the keyword in the title+info corpus) x (0.5 + len/20), in
\* each of the three role taxonomies; so with equal occurrence counts a
\* longer keyword adds strictly more and a keyword that does not occur adds 0.
C16_RoleScoreFormula ==
  Done("recognize_role") =>
    /\ ScoredByFormula(role_data.organizational_roles,
                       Val(locals).organizational_role_scores,
                       Val(locals).combined_text)
    /\ ScoredByFormula(role_data.functional_roles,
                       Val(locals).functional_role_scores,
                       Val(locals).combined_text)
    /\ ScoredByFormula(ScoredIndustryRoles,
                       Val(locals).industry_role_scores,
                       Val(locals).combined_text)

\* two roles matched once each by keywords of different length: the longer
\* keyword gave the higher score
C16_Witness ==
  /\ Returned("recognize_role")
  /\ ScoreIn(Val(locals).organizational_role_scores, "executive") = 13
  /\ ScoreIn(Val(locals).organizational_role_scores, "specialist") = 17

\* the positions, in taxonomy order, of the roles that scored above 0
Positive(roles, scores) ==
  {i \in 1..Len(roles) : ScoreIn(scores, roles[i].id) > 0}

RECURSIVE ScoreSum(_, _, _)
ScoreSum(roles, scores, S) ==
  IF S = {} THEN 0
  ELSE LET i == CHOOSE j \in S : TRUE
       IN ScoreIn(scores, roles[i].id) + ScoreSum(roles, scores, S \ {i})

\* the role of maximal score, the first one in taxonomy order among equals
Winner(roles, scores) ==
  CHOOSE i \in Positive(roles, scores) :
    \A j \in Positive(roles, scores) :
      \/ ScoreIn(scores, roles[i].id) > ScoreIn(scores, roles[j].id)
      \/ /\ ScoreIn(scores, roles[i].id) = ScoreIn(scores, roles[j].id)
         /\ i <= j

\* primary is the winner of the taxonomy with its share of the positive
\* scores as confidence, and matches lists the positive roles and only them
TaxonomyOutcome(roles, scores, primary, matches) ==
  LET top == Winner(roles, scores)
  IN /\ primary.id = roles[top].id
     /\ primary.name = roles[top].name
     /\ primary.description = roles[top].description
     /\ primary.confidence =
          round2(ScoreIn(scores, roles[top].id),
                 ScoreSum(roles, scores, Positive(roles, scores)))
     /\ Len(matches) = Cardinality(Positive(roles, scores))
     /\ {matches[k] : k \in 1..Len(matches)} =
          {[id |-> roles[i].id, name |-> roles[i].name,
            score_x20 |-> ScoreIn(scores, roles[i].id)] :
             i \in Positive(roles, scores)}

\* C17: in each role taxonomy (organizational, functional, industry-specific)
\* where some role scores above 0, recognize_role returns the role of maximal
\* score, the first in taxonomy order on ties, with confidence 100 x its
\* score / the sum of the positive scores of that taxonomy, and all_matches
\* lists for the taxonomy exactly the positively scoring roles with name and
\* score.
C17_WinnerShareAndMatches ==
  Returned("recognize_role") =>
    /\ Positive(role_data.organizational_roles,
                Val(locals).organizational_role_scores) # {} =>
         TaxonomyOutcome(role_data.organizational_roles,
                         Val(locals).organizational_role_scores,
                         Val(response).organizational_role,
                         Val(response).all_matches.organizational_roles)
    /\ Positive(role_data.functional_roles,
                Val(locals).functional_role_scores) # {} =>
         TaxonomyOutcome(role_data.functional_roles,
                         Val(locals).functional_role_scores,
                         Val(response).functional_role,
                         Val(response).all_matches.functional_roles)
    /\ Positive(ScoredIndustryRoles, Val(locals).industry_role_scores) # {} =>
         /\ ~IsNone(Val(response).industry_specific_role)
         /\ "industry_specific_roles" \in DOMAIN Val(response).all_matches
         /\ TaxonomyOutcome(ScoredIndustryRoles,
                            Val(locals).industry_role_scores,
                            Val(Val(response).industry_specific_role),
                            Val(response).all_matches.industry_specific_roles)

\* two organizational roles matched with the same score: the earlier one in
\* the taxonomy is returned, with half of the total as confidence
C17_Witness ==
  /\ Returned("recognize_role")
  /\ Len(Val(response).all_matches.organizational_roles) = 2
  /\ Val(response).all_matches.organizational_roles[1].score_x20 =
       Val(response).all_matches.organizational_roles[2].score_x20
  /\ Val(response).organizational_role.id = "manager"
  /\ Val(response).organizational_role.confidence = 5000

\* the call names an industry that has industry-specific roles registered
IndustryRegistered ==
  /\ ~IsNone(request.industry)
  /\ Val(request.industry) # <<>>
  /\ HasKey(role_data.industry_specific_roles, Str(lower(Val(request.industry))))

RoleRecords ==
  {role_data.organizational_roles[i] :
     i \in 1..Len(role_data.organizational_roles)}
  \cup {role_data.functional_roles[i] :
          i \in 1..Len(role_data.functional_roles)}
  \cup UNION {{role_data.industry_specific_roles[k].roles[i] :
                 i \in 1..Len(role_data.industry_specific_roles[k].roles)} :
              k \in 1..Len(role_data.industry_specific_roles)}

\* the id handed to get_role_information names no role of the taxonomy the
\* call selects
RoleUnrecognized ==
  ~ \/ /\ request.role_type = "organizational"
       /\ HasKey(role_data.organizational_roles, request.role_id)
    \/ /\ request.role_type = "functional"
       /\ HasKey(role_data.functional_roles, request.role_id)
    \/ /\ request.role_type = "industry_specific"
       /\ ~IsNone(request.industry)
       /\ HasKey(role_data.industry_specific_roles, Val(request.industry))
       /\ HasKey(Get(role_data.industry_specific_roles,
                     Val(request.industry)).roles, request.role_id)

\* C19: every lookup given an unrecognized id returns the record of a
\* designated default category and does not raise: get_industry_information
\* the "technology" industry, get_size_information the "medium" size,
\* get_communication_strategy the "manager" strategy, get_role_information a
\* default role record.
C19_LookupsFallBackToDefault ==
  /\ (/\ Done("get_industry_information")
      /\ ~HasKey(industry_data.industries, request.industry_id))
     => /\ Val(response).status = "ok"
        /\ Val(response).value = Get(industry_data.industries, "technology")
  /\ (/\ Done("get_size_information")
      /\ ~HasKey(size_data.size_characteristics,
                 Str(lower(request.size_category))))
     => /\ Val(response).status = "ok"
        /\ Val(response).value = Get(size_data.size_characteristics, "medium")
  /\ (/\ Done("get_communication_strategy")
      /\ ~HasKey(role_data.communication_strategies,
                 request.organizational_role))
     => /\ Val(response).status = "ok"
        /\ Val(response).value = Get(role_data.communication_strategies,
                                     "manager")
  /\ (Done("get_role_information") /\ RoleUnrecognized)
     => /\ Val(response).status = "ok"
        /\ Val(response).value \in RoleRecords

Bootstraps(scorer, before, after, data, default_data) ==
  /\ before.kind # "json" =>
       /\ data = default_data
       /\ after = Document(json_dump(scorer, default_data))
  /\ before.kind = "json" =>
       /\ data = json_load(scorer, Val(before.doc))
       /\ after = before
  /\ after.kind = "json"
  /\ json_load(scorer, Val(after.doc)) = data

Updated(op) == request.op = op /\ IsNone(response) /\ ~IsNone(response')

\* the partial document has an entry under the path of keys
NamesEntry(new_data, category, key) ==
  \E c \in DOMAIN new_data :
    /\ new_data[c].id = category
    /\ HasKey(new_data[c].value, key)

NamedEntry(new_data, category, key) ==
  Get(Get(new_data, category).value, key)

\* buckets of the metrics of a dict of thresholds: each metric is still
\* there, and so is each of its buckets that the update (metrics, a dict of
\* supplied metrics) does not name
BucketsKept(before, after, metrics) ==
  \A m \in DOMAIN before :
    /\ HasKey(after, before[m].id)
    /\ \A b \in DOMAIN before[m].ranges :
         LET bucket == before[m].ranges[b]
             named == /\ HasKey(metrics, before[m].id)
                      /\ HasKey(Get(metrics, before[m].id).ranges, bucket.id)
             ranges == Get(after, before[m].id).ranges
         IN \/ named
            \/ HasKey(ranges, bucket.id) /\ Get(ranges, bucket.id) = bucket

\* fields of the entries of a dict: each entry is still there, and so is
\* each of its fields that the update (entries, a dict of supplied entries)
\* does not name
FieldsKept(before, after, entries) ==
  \A e \in DOMAIN before :
    /\ HasKey(after, before[e].id)
    /\ \A field \in DOMAIN before[e] :
         LET named == /\ HasKey(entries, before[e].id)
                      /\ field \in DOMAIN Get(entries, before[e].id)
             entry == Get(after, before[e].id)
         IN \/ named
            \/ field \in DOMAIN entry /\ entry[field] = before[e][field]

SizeDataKept(before, after, new_data) ==
  /\ BucketsKept(before.general_thresholds, after.general_thresholds,
                 IF HasKey(new_data, "general_thresholds")
                 THEN Get(new_data, "general_thresholds").value ELSE <<>>)
  /\ \A k \in DOMAIN before.industry_specific_thresholds :
       LET industry == before.industry_specific_thresholds[k]
       IN /\ HasKey(after.industry_specific_thresholds, industry.id)
          /\ BucketsKept(
               industry.thresholds,
               Get(after.industry_specific_thresholds, industry.id).thresholds,
               IF NamesEntry(new_data, "industry_specific_thresholds",
                             industry.id)
               THEN NamedEntry(new_data, "industry_specific_thresholds",
                               industry.id).thresholds
               ELSE <<>>)
  /\ FieldsKept(before.size_characteristics, after.size_characteristics,
                IF HasKey(new_data, "size_characteristics")
                THEN Get(new_data, "size_characteristics").value ELSE <<>>)

RoleDataKept(before, after, new_data) ==
  /\ \A category \in {"organizational_roles", "functional_roles",
                      "communication_strategies"} :
       FieldsKept(before[category], after[category],
                  IF HasKey(new_data, category)
                  THEN Get(new_data, category).value ELSE <<>>)
  /\ \A k \in DOMAIN before.industry_specific_roles :
       LET industry == before.industry_specific_roles[k]
       IN /\ HasKey(after.industry_specific_roles, industry.id)
          /\ FieldsKept(
               industry.roles,
               Get(after.industry_specific_roles, industry.id).roles,
               IF NamesEntry(new_data, "industry_specific_roles", industry.id)
               THEN NamedEntry(new_data, "industry_specific_roles",
                               industry.id).roles
               ELSE <<>>)

\* C22: update_size_data and update_role_data merge the partial document
\* key by key at every depth, so that every bucket, metric, field and entry
\* the update does not name is afterwards what it was before.
C22_UpdatesMergeAtEveryDepth ==
  [][/\ Updated("update_size_data")
          => SizeDataKept(size_data, size_data', request.new_data)
     /\ Updated("update_role_data")
          => RoleDataKept(role_data, role_data', request.new_data)]_vars

\* every keyword of each of the lists is in the list
HoldsAll(list, lists) ==
  \A l \in DOMAIN lists : \A i \in DOMAIN lists[l] : InList(list, lists[l][i])

\* the keyword lists of one supplied industry after the update
KeywordsAppended(before, after, industry_info) ==
  IF ~HasKey(before, industry_info.id)
  THEN HasKey(after, industry_info.id)
       /\ Get(after, industry_info.id) = industry_info
  ELSE LET old == Get(before, industry_info.id)
           new == Get(after, industry_info.id)
       IN /\ "keywords" \in DOMAIN industry_info
               => HoldsAll(new.keywords,
                           <<old.keywords, industry_info.keywords>>)
          /\ "sub_industries" \in DOMAIN industry_info
               => \A s \in DOMAIN industry_info.sub_industries :
                    LET sub_info == industry_info.sub_industries[s]
                        new_sub == Get(new.sub_industries, sub_info.id)
                    IN "keywords" \in DOMAIN sub_info
                         => IF HasKey(old.sub_industries, sub_info.id)
                            THEN HoldsAll(
                                   new_sub.keywords,
                                   <<Get(old.sub_industries,
                                         sub_info.id).keywords,
                                     sub_info.keywords>>)
                            ELSE new_sub.keywords = sub_info.keywords

\* C27: after update_industry_data supplies a keywords list for an existing
\* industry or an existing sub-industry, every keyword present before and
\* every supplied keyword is present; for a new industry or sub-industry the
\* supplied list is stored as given.
C27_KeywordListsAppended ==
  [][Updated("update_industry_data")
       /\ HasKey(request.new_data, "industries")
     => \A i \in DOMAIN Get(request.new_data, "industries").value :
          KeywordsAppended(industry_data.industries,
                           industry_data'.industries,
                           Get(request.new_data, "industries").value[i])]_vars

\* the industries of the document hold what the update supplied
Present(industries, new_data) ==
  \A i \in DOMAIN Get(new_data, "industries").value :
    LET industry_info == Get(new_data, "industries").value[i]
    IN /\ HasKey(industries, industry_info.id)
       /\ HoldsAll(Get(industries, industry_info.id).keywords,
                   <<industry_info.keywords>>)

\* the industries of the persisted document
Persisted == json_load("industry", Val(files.industry.doc)).industries

\* both classifiers have completed their update
BothUpdated == ~IsNone(response) /\ history # <<>>

\* C23: updates of two classifiers bound to the same path are not
\* serialized. Once both have completed, the persisted document holds the
\* entries of both only if the second classifier was built after the first
\* one's update, so that it had read that entry; built before it, the entry
\* of whichever update was written first is lost: the document is the
\* taxonomy of the classifier that wrote last.
C23_UnserializedWritersLoseUpdates ==
  BothUpdated
    => /\ \/ Persisted = industry_data.industries
          \/ Persisted = peer.industry_data.industries
       /\ \/ Present(Persisted, request.new_data)
          \/ Present(Persisted, request.peer_data)
       /\ (Present(Persisted, request.new_data)
             /\ Present(Persisted, request.peer_data))
          <=> Present(peer.industry_data.industries, request.new_data)

\* both updates completed and the persisted document lacks the entry of one
C23_Witness ==
  /\ BothUpdated
  /\ ~Present(Persisted, request.new_data)
  /\ Present(industry_data.industries, request.new_data)

\* a call of one of the operations has just run to completion
Completes(ops) ==
  request.op \in ops /\ IsNone(response) /\ ~IsNone(response')

ScoringOperations ==
  {"classify_industry", "analyze_business_size", "recognize_role"}

UpdateOperations ==
  {"update_industry_data", "update_size_data", "update_role_data"}

\* the constructor that builds the scorer
ConstructorOf(scorer) ==
  IF scorer = "industry" THEN "IndustryClassifier"
  ELSE IF scorer = "size" THEN "BusinessSizeAnalyzer"
  ELSE "RoleRecognizer"

\* the update operation of the scorer
UpdateOf(scorer) ==
  IF scorer = "industry" THEN "update_industry_data"
  ELSE IF scorer = "size" THEN "update_size_data"
  ELSE "update_role_data"

\* the in-memory taxonomies, by scorer
Taxonomies ==
  [industry |-> industry_data, size |-> size_data, role |-> role_data]

\* C26: classify_industry, analyze_business_size and recognize_role leave
\* the in-memory taxonomies and the persisted documents as they are; a
\* document is written only by the construction of its scorer over a missing
\* or invalid file and by the scorer's update operation, and the taxonomy of
\* a scorer changes only when it is built or updated.
C26_ScoringIsReadOnly ==
  [][/\ Completes(ScoringOperations)
          => UNCHANGED <<industry_data, size_data, role_data, files>>
     /\ \A scorer \in {"industry", "size", "role"} :
          /\ files'[scorer] # files[scorer]
               => \/ Completes({ConstructorOf(scorer)})
                       /\ files[scorer].kind # "json"
                  \/ Completes({UpdateOf(scorer)})
          /\ Taxonomies'[scorer] # Taxonomies[scorer]
               => Completes({ConstructorOf(scorer), UpdateOf(scorer)})]_vars

\* two scoring calls have been made one after the other on a scorer built
\* with no file, and taxonomy and document are the built-in defaults
C26_Witness ==
  /\ Len(history) = 2
  /\ history[1].op = "BusinessSizeAnalyzer"
  /\ history[2].op = "analyze_business_size"
  /\ request.op = "analyze_business_size"
  /\ ~IsNone(response)
  /\ size_data = default_size_data
  /\ files.size = Document(json_dump("size", default_size_data))
  /\ files.industry.kind = "missing"

\* the key a table is read under: the key itself if the table has it, else
\* the default of the kind of key
IndustryKey(industry) ==
  IF industry \in {"retail", "healthcare", "finance", "manufacturing",
                   "technology"}
  THEN industry ELSE "technology"

SizeKey(business_size) ==
  IF business_size \in {"small", "medium", "enterprise"}
  THEN business_size ELSE "medium"

RoleKey(role) ==
  IF role \in {"executive", "manager", "specialist"} THEN role ELSE "manager"

\* the implementation approach written for the size category
ApproachOf(business_size) ==
  IF business_size = "small" THEN small_approach
  ELSE IF business_size = "medium" THEN medium_approach
  ELSE enterprise_approach

\* C28: in the strategy generate_adaptation_strategy returns, every table
\* keyed by industry id, size category or organizational role id is read
\* under the key itself or, when the table does not have it, under
\* technology, medium or manager: implementation_approach,
\* recommended_capabilities, integration_priorities, value_proposition_focus
\* and roi_emphasis of a size category such as micro or large are made of
\* the medium entries.
C28_UnrecognizedKeysUseOneDefault ==
  Returned("generate_adaptation_strategy")
    => LET context == request.business_context
           industry == IndustryKey(context.industry.id)
           size == SizeKey(Str(context.business_size.category))
           role == RoleKey(context.user_role.organizational.id)
           strategy == Val(response)
       IN /\ strategy.content_adaptation.business_size_adaptation
               .implementation_approach = ApproachOf(size)
          /\ strategy.content_adaptation.business_size_adaptation
               .resource_considerations
               = Get(size_data.size_characteristics, size).challenges
          /\ strategy.content_adaptation.role_based_communication
               .content_focus
               = Get(role_data.communication_strategies, role).content_focus
          /\ strategy.feature_adaptation.recommended_capabilities
               = base_capabilities
                 \o Get(industry_capabilities, industry).items
                 \o Get(size_capabilities, size).items
                 \o Get(role_capabilities, role).items
          /\ strategy.feature_adaptation.integration_priorities
               = base_priorities
                 \o Get(industry_priorities, industry).items
                 \o Get(size_priorities, size).items
          /\ strategy.engagement_strategy.value_proposition_focus
               = Take(Get(industry_value_props, industry).items, 2)
                 \o Take(Get(size_value_props, size).items, 2)
                 \o Take(Get(role_value_props, role).items, 2)
          /\ strategy.engagement_strategy.roi_emphasis
               = Take(Get(role_roi, role).items, 3)
                 \o Take(Get(size_roi, size).items, 3)

\* C29: whenever analyze_business_size evaluates at least one supplied
\* metric, the size_category returned is the category of some entry of
\* metrics_analysis, as many votes were counted as metrics_analysis has
\* entries, and the confidence is above 0; additional metrics named
\* employees or revenue, given next to employees_count or annual_revenue,
\* are no exception.
C29_VotesMatchMetricsAnalysis ==
  Returned("analyze_business_size") /\ Val(locals).size_categories # <<>>
    => LET result == Val(response)
       IN /\ \E i \in DOMAIN result.metrics_analysis :
               result.metrics_analysis[i].category = result.size_category
          /\ Len(Val(locals).size_categories) = Len(result.metrics_analysis)
          /\ result.confidence > 0

\* the categories given to the evaluated metrics
Categories(votes) == {votes[i].category : i \in 1..Len(votes)}

\* no two evaluated metrics have the same name, and at most one of them is
\* an additional metric
OneAdditionalMetric(votes) ==
  /\ \A i, j \in 1..Len(votes) : votes[i].metric = votes[j].metric => i = j
  /\ Cardinality({i \in 1..Len(votes) :
                    votes[i].metric \notin {"employees", "revenue"}}) <= 1

\* C30: when the evaluated metrics are employees, revenue and one additional
\* metric of the industry, under names of their own, the category with the
\* most votes is also a category of greatest total weight, and the
\* confidence returned is not below the weight share of any other category.
C30_CountWinnerIsWeightWinner ==
  Returned("analyze_business_size")
    /\ Evaluated(request) # <<>>
    /\ OneAdditionalMetric(Evaluated(request))
    => LET votes == Evaluated(request)
           final == Val(response).size_category
           total == WeightSum(votes, 1..Len(votes))
       IN \A c \in Categories(votes) :
            /\ WeightSum(votes, VotesFor(votes, final))
                 >= WeightSum(votes, VotesFor(votes, c))
            /\ Val(response).confidence
                 >= round2(WeightSum(votes, VotesFor(votes, c)), total)

\* employees, revenue and the additional metric are given three different
\* categories
C30_Witness ==
  /\ Returned("analyze_business_size")
  /\ Len(Evaluated(request)) = 3
  /\ OneAdditionalMetric(Evaluated(request))
  /\ Cardinality(Categories(Evaluated(request))) = 3
  /\ Val(response).size_category = Evaluated(request)[1].category

\* the call is the one the row of the table makes
IsCase(case) ==
  /\ request.job_title = case.title
  /\ request.additional_info = Some(case.info)
  /\ request.industry = Some(case.industry)

\* C24: under the default role taxonomy recognize_role returns, for each row
\* of the role-recognition test table, the organizational role id the row
\* expects and, where the row names one, the functional role id: CEO is an
\* executive, Marketing Manager a manager in marketing, Software Developer a
\* specialist in technology, Chief Financial Officer an executive in finance
\* and Nurse Practitioner a specialist.
C24_RoleTestTable ==
  Done("recognize_role")
    => \A case \in RoleTestCases :
         IsCase(case)
           => /\ Val(response).status = "ok"
              /\ Val(response).organizational_role.id = case.expected_org_role
              /\ ~IsNone(case.expected_func_role)
                   => Val(response).functional_role.id
                        = Val(case.expected_func_role)

\* C25: generate_multiple_propositions(industry, business_size, role,
\* count) returns exactly count value propositions, no two of them the same,
\* however the random choices come out.
C25_PropositionsDistinct ==
  Returned("generate_multiple_propositions")
    => LET propositions == Val(response).propositions
       IN /\ Len(propositions) = request.count
          /\ \A i, j \in 1..Len(propositions) :
               propositions[i] = propositions[j] => i = j

====
